---------------------------- MODULE Spec2Model ----------------------------
(***************************************************************************)
(* Model of the scholarship scraping scripts: the JSON-from-free-text      *)
(* recovery done on the agent's final text (scrape-all-smarterselect.py,   *)
(* scrape-one-smarterselect.py) and the batch drivers that run one agent   *)
(* per label (scrape-all-smarterselect.py, scrape-all-modular.py,          *)
(* scrape-aises-cobell.py, scrape-all-scholarships.py), the single-run     *)
(* scripts with their exit codes and stdout lines, and the file names of   *)
(* a batch run.                                                            *)
(*                                                                         *)
(* A text is a sequence of one-character strings.  A JSON value is held as *)
(* the text json.dumps(value, separators=(',', ':')) gives for it: no      *)
(* insignificant whitespace, duplicate keys resolved the way a Python dict *)
(* resolves them, strings with their escapes decoded and encoded again,    *)
(* numbers as the int or the float repr of the double they are read as.    *)
(* Two texts parse to the same value exactly when these texts are equal.   *)
(***************************************************************************)
EXTENDS Integers, Sequences, FiniteSets, TLC

VARIABLES
    parts,      \* extraction input: the pieces the agent text is made of
    script,     \* extraction: which routine ran ("none", "all", "one", "firstlast")
    xres,       \* extraction: the outcome record of that routine
    report,     \* extraction: what the script reports for the text
    driver,     \* which script runs: a batch driver or a single-run script
    env,        \* the process: OPENAI_API_KEY set, arguments, answers file and URL
    exit,       \* whether the process has ended, and its exit code
    out,        \* the STATUS, PROGRESS and RESULT lines printed so far
    answers,    \* complete-application.py: the prepared answers loaded
    step,       \* single-run scripts: how many steps before agent.run() are done
    labels,     \* file naming: the labels of the run, as character sequences
    named,      \* file naming: per item so far, the file names made for it
    pc,         \* batch: position of the driver coroutine
    idx,        \* batch: 1-based position in SCHOLARSHIPS of the current item
    results,    \* batch: the results list of the driver
    inflight,   \* batch: labels whose agent.run() task exists and is not finished
    runs,       \* batch: per label, how many times an agent was started
    outcome,    \* batch: per label, how the agent invocation ended
    rawtext,    \* batch: per label, the pieces of the text the agent returned
    hung,       \* batch: the running agent never returns on its own
    files,      \* batch: files written, as [file |-> name, data |-> content]
    summary     \* batch: the summary document once written, else NoSummary

vars == <<parts, script, xres, report, labels, named, driver, env, exit, out, answers, step, pc, idx, results, inflight, runs,
          outcome, rawtext, hung, files, summary>>

xvars == <<parts, script, xres, report>>
nvars == <<labels, named>>
bvars == <<driver, env, exit, out, answers, step, pc, idx, results, inflight, runs, outcome, rawtext, hung,
           files, summary>>

---------------------------------------------------------------------------
(* Characters and small text helpers                                       *)

Q  == "\""
BS == "\\"
NL == "\n"
SP == " "
\* the grave accent U+0060, which a TLA+ string cannot hold
BT == "BACKTICK"

TAB == "\t"
CR == "\r"

\* the characters that str.strip(), regex \s and the JSON decoder's
\* WHITESPACE all take for whitespace
Ws == {SP, NL, TAB, CR}

\* the control characters a text can hold: not allowed raw inside a JSON
\* string (strict mode)
Control == {NL, TAB, CR}

Digits == {"0", "1", "2", "3", "4", "5", "6", "7", "8", "9"}

\* characters that may follow a backslash inside a JSON string
\* (json.decoder.BACKSLASH), besides u
EscChars == {Q, BS, "/", "b", "f", "n", "r", "t"}

Slice(s, a, b) == IF a > b THEN <<>> ELSE SubSeq(s, a, b)

\* s[i:i+Len(p)] == p
StartsAt(s, i, p) ==
    /\ i >= 1
    /\ i + Len(p) - 1 <= Len(s)
    /\ \A k \in 1..Len(p) : s[i + k - 1] = p[k]

\* position of the first character at or after i that is not whitespace
\* (Len(s)+1 when there is none)
RECURSIVE SkipWs(_, _)
SkipWs(s, i) ==
    IF i <= Len(s) /\ s[i] \in Ws THEN SkipWs(s, i + 1) ELSE i

RECURSIVE RSkipWs(_, _)
RSkipWs(s, j) ==
    IF j >= 1 /\ s[j] \in Ws THEN RSkipWs(s, j - 1) ELSE j

\* str.strip()
Strip(s) == Slice(s, SkipWs(s, 1), RSkipWs(s, Len(s)))

\* least element of the set of positions c, d when c is empty
MinOr(c, d) == IF c = {} THEN d ELSE CHOOSE k \in c : \A m \in c : k <= m

\* greatest element of the set of positions c, d when c is empty
MaxOr(c, d) == IF c = {} THEN d ELSE CHOOSE k \in c : \A m \in c : k >= m

\* first position at or after i whose character is in cs, Len(s)+1 when
\* there is none (a left-to-right scan that passes over the other characters)
NextIn(s, i, cs) == MinOr({k \in i..Len(s) : s[k] \in cs}, Len(s) + 1)

\* str.find(c): 1-based position of the first c, 0 when absent
Find(s, c) == MinOr({k \in 1..Len(s) : s[k] = c}, 0)

\* str.rfind(c): 1-based position of the last c, 0 when absent
RFind(s, c) == MaxOr({k \in 1..Len(s) : s[k] = c}, 0)

RECURSIVE Flatten(_)
Flatten(ss) == IF ss = <<>> THEN <<>> ELSE Head(ss) \o Flatten(Tail(ss))

---------------------------------------------------------------------------
(* float(numstr) and repr(float): decimal text to the nearest IEEE 754      *)
(* double (round half to even) and back to the shortest decimal text that   *)
(* gives the same double, on decimal digit sequences                        *)

DigitChars == <<"0", "1", "2", "3", "4", "5", "6", "7", "8", "9">>

DigitOf(c) == (CHOOSE k \in 1..10 : DigitChars[k] = c) - 1

\* the digits of the characters s[a..b], most significant first
DigitsOf(s, a, b) == [k \in 1..(b - a + 1) |-> DigitOf(s[a + k - 1])]

CharsOf(d) == [k \in 1..Len(d) |-> DigitChars[d[k] + 1]]

Zeros(n) == [k \in 1..n |-> 0]

AllZero(d) == \A k \in 1..Len(d) : d[k] = 0

\* without its leading zeros (the empty sequence is zero)
StripZeros(d) ==
    Slice(d, MinOr({k \in 1..Len(d) : d[k] # 0}, Len(d) + 1), Len(d))

\* without its trailing zeros
RStripZeros(d) == Slice(d, 1, MaxOr({k \in 1..Len(d) : d[k] # 0}, 0))

\* a < b for naturals written without leading zeros
LessDigits(a, b) ==
    \/ Len(a) < Len(b)
    \/ /\ Len(a) = Len(b)
       /\ \E k \in 1..Len(a) :
            /\ a[k] < b[k]
            /\ \A j \in 1..(k - 1) : a[j] = b[j]

\* the natural d plus one
RECURSIVE IncDigits(_)
IncDigits(d) ==
    IF d = <<>> THEN <<1>>
    ELSE IF d[Len(d)] < 9
         THEN [d EXCEPT ![Len(d)] = @ + 1]
         ELSE Append(IncDigits(SubSeq(d, 1, Len(d) - 1)), 0)

\* the decimal number  d * 10^-p  (d a natural, p fraction digits)
Dec(d, p) == [d |-> d, p |-> p]

IntPart(x) ==
    IF Len(x.d) > x.p THEN StripZeros(SubSeq(x.d, 1, Len(x.d) - x.p)) ELSE <<>>

\* the p fraction digits
FracPart(x) ==
    IF Len(x.d) >= x.p
    THEN Slice(x.d, Len(x.d) - x.p + 1, Len(x.d))
    ELSE Zeros(x.p - Len(x.d)) \o x.d

\* 2 * d, digit by digit: the carry into a place is 1 when the digit to
\* its right is 5 or more
TwiceDigits(d) ==
    StripZeros([k \in 1..(Len(d) + 1) |->
        (2 * (IF k = 1 THEN 0 ELSE d[k - 1])
         + (IF k <= Len(d) /\ d[k] >= 5 THEN 1 ELSE 0)) % 10])

\* d \div 2, digit by digit: an odd digit gives 5 to the place on its right
HalfDigits(d) ==
    StripZeros([k \in 1..Len(d) |->
        (d[k] \div 2) + (IF k > 1 /\ d[k - 1] % 2 = 1 THEN 5 ELSE 0)])

Twice(x) == Dec(TwiceDigits(x.d), x.p)

\* x / 2, exactly: one more fraction digit when d is odd
Half(x) ==
    IF x.d # <<>> /\ x.d[Len(x.d)] % 2 = 1
    THEN Dec(HalfDigits(Append(x.d, 0)), x.p + 1)
    ELSE Dec(HalfDigits(x.d), x.p)

\* x * 2^e, by halves of e
RECURSIVE TimesPow2(_, _)
TimesPow2(x, e) ==
    IF x.d = <<>> \/ e = 0 THEN x
    ELSE IF e = 1 THEN Twice(x)
    ELSE IF e = 0 - 1 THEN Half(x)
    ELSE TimesPow2(TimesPow2(x, e \div 2), e - (e \div 2))

\* 2^52 and 2^53: a double is m * 2^e with 2^52 <= m < 2^53, or with
\* m < 2^52 and e = MinExp (subnormal)
P52 == <<4, 5, 0, 3, 5, 9, 9, 6, 2, 7, 3, 7, 0, 4, 9, 6>>
P53 == <<9, 0, 0, 7, 1, 9, 9, 2, 5, 4, 7, 4, 0, 9, 9, 2>>
MinExp == 0 - 1074
MaxExp == 1023 - 52

Dbl(m, e) == [m |-> m, e |-> e, inf |-> FALSE]
DblInf == [m |-> <<>>, e |-> 0, inf |-> TRUE]

\* the fraction f of a number against one half: -1 below, 0 equal, 1 above
HalfWay(f) ==
    IF f = <<>> \/ f[1] < 5 THEN 0 - 1
    ELSE IF f[1] > 5 \/ ~AllZero(Tail(f)) THEN 1
    ELSE 0

\* m after rounding half to even: i its integer part, h the fraction
\* against one half
RoundHalfEven(i, h) ==
    IF h = 1 \/ (h = 0 /\ i # <<>> /\ i[Len(i)] % 2 = 1)
    THEN IncDigits(i) ELSE i

\* m = 2^53 after rounding is 2^52 with the next exponent; past the
\* largest exponent the double is infinite
Normal(m, e) ==
    IF m = P53 THEN (IF e + 1 > MaxExp THEN DblInf ELSE Dbl(P52, e + 1))
    ELSE IF e > MaxExp THEN DblInf
    ELSE Dbl(m, e)

\* the double nearest to y * 2^e, y already scaled
Rounded(y, e) == Normal(RoundHalfEven(IntPart(y), HalfWay(FracPart(y))), e)

\* scale y by powers of two until 2^52 <= y < 2^53 (or the least exponent)
RECURSIVE Scaled(_, _)
Scaled(y, e) ==
    IF ~LessDigits(IntPart(y), P53) THEN Scaled(Half(y), e + 1)
    ELSE IF LessDigits(IntPart(y), P52) /\ e > MinExp
         THEN Scaled(Twice(y), e - 1)
    ELSE Rounded(y, e)

\* position of the leading digit of x: x = d.ddd * 10^SciExp(x), d # 0
SciExp(x) == Len(StripZeros(x.d)) - x.p - 1

\* a power of two near x * 2^-52 (10 is about 2^3.3219), not below the
\* least exponent
NearExp(sx) == IF (sx * 33219) \div 10000 - 52 < MinExp THEN MinExp
               ELSE (sx * 33219) \div 10000 - 52

ScaledFrom(x, e) == Scaled(TimesPow2(x, 0 - e), e)

\* the double nearest to the positive decimal x
ToDouble(x) == ScaledFrom(x, NearExp(SciExp(x)))

\* the decimal with digits c (leading digit nonzero) and leading position sx
FromSci(c, sx) ==
    IF sx - Len(c) + 1 >= 0
    THEN Dec(c \o Zeros(sx - Len(c) + 1), 0)
    ELSE Dec(c, Len(c) - 1 - sx)

\* the first n significant digits of the digits sd, zero filled
Lead(sd, n) ==
    IF Len(sd) >= n THEN SubSeq(sd, 1, n) ELSE sd \o Zeros(n - Len(sd))

\* sd rounded down and up to n significant digits, as <<digits, sx>>
SigDown(sd, sx, n) == <<Lead(sd, n), sx>>

SigUpOf(sd, sx, n, c) ==
    IF Len(c) > n THEN <<SubSeq(c, 1, n), sx + 1>> ELSE <<c, sx>>

SigUp(sd, sx, n) ==
    IF AllZero(Slice(sd, n + 1, Len(sd))) THEN SigDown(sd, sx, n)
    ELSE SigUpOf(sd, sx, n, IncDigits(Lead(sd, n)))

\* the two candidates with n digits, the one nearer to sd first and, when
\* sd is half-way between them, the one with the even last digit first
UpFirst(h, last) == h > 0 \/ (h = 0 /\ last % 2 = 1)

SigNear(sd, sx, n) ==
    IF UpFirst(HalfWay(Slice(sd, n + 1, Len(sd))), Lead(sd, n)[n])
    THEN <<SigUp(sd, sx, n), SigDown(sd, sx, n)>>
    ELSE <<SigDown(sd, sx, n), SigUp(sd, sx, n)>>

Gives(c, v) == ToDouble(FromSci(c[1], c[2])) = v

\* the shortest digits, from n digits on, that give the double v back;
\* the exact value of v has the digits sd and the leading position sx
RECURSIVE Shortest(_, _, _, _)
ShortestOf(v, sd, sx, n, cs) ==
    IF Gives(cs[1], v) THEN cs[1]
    ELSE IF Gives(cs[2], v) THEN cs[2]
    ELSE Shortest(v, sd, sx, n + 1)

Shortest(v, sd, sx, n) ==
    IF n >= Len(sd) THEN <<sd, sx>>
    ELSE ShortestOf(v, sd, sx, n, SigNear(sd, sx, n))

\* the decimal exponent of repr: sign and at least two digits
RECURSIVE NatChars(_)
NatChars(n) ==
    IF n < 10 THEN <<DigitChars[n + 1]>>
    ELSE Append(NatChars(n \div 10), DigitChars[(n % 10) + 1])

ExpChars(sx) ==
    <<"e", IF sx < 0 THEN "-" ELSE "+">>
    \o (IF sx < 10 /\ sx > 0 - 10 THEN <<"0">> ELSE <<>>)
    \o NatChars(IF sx < 0 THEN 0 - sx ELSE sx)

\* float_repr_style 'short': digits c without trailing zeros, leading
\* position sx; exponent form when sx < -4 or sx >= 16
ReprOf(c, sx) ==
    IF sx < 0 - 4 \/ sx >= 16
    THEN CharsOf(<<c[1]>>)
         \o (IF Len(c) > 1 THEN <<".">> \o CharsOf(Tail(c)) ELSE <<>>)
         \o ExpChars(sx)
    ELSE IF sx < 0
    THEN <<"0", ".">> \o CharsOf(Zeros(0 - sx - 1) \o c)
    ELSE CharsOf(Lead(c, sx + 1)) \o <<".">>
         \o (IF Len(c) > sx + 1 THEN CharsOf(SubSeq(c, sx + 2, Len(c)))
             ELSE <<"0">>)

ReprDigits(c) == ReprOf(RStripZeros(c[1]), c[2])

InfinityChars == <<"I", "n", "f", "i", "n", "i", "t", "y">>

\* repr of the finite nonzero double v
ReprExact(v, x) == ReprDigits(Shortest(v, RStripZeros(x.d), SciExp(x), 1))

ReprDouble(v) ==
    IF v.inf THEN InfinityChars
    ELSE IF v.m = <<>> THEN <<"0", ".", "0">>
    ELSE ReprExact(v, TimesPow2(Dec(v.m, 0), v.e))

\* repr(float(text)) for the positive decimal x: beyond these leading
\* positions every decimal is infinite, or rounds to zero
FloatRepr(x) ==
    IF x.d = <<>> THEN <<"0", ".", "0">>
    ELSE IF SciExp(x) > 308 THEN InfinityChars
    ELSE IF SciExp(x) < 0 - 324 THEN <<"0", ".", "0">>
    ELSE ReprDouble(ToDouble(x))

---------------------------------------------------------------------------
(* json.loads                                                              *)

\* outcome of parsing one value: ok, the position after it, its compact
\* serialisation, its kind, and for an object the kind of its "title" member
PFail == [ok |-> FALSE, pos |-> 0, out |-> <<>>, kind |-> "none", title |-> "none"]

POk(p, o, k, t) == [ok |-> TRUE, pos |-> p, out |-> o, kind |-> k, title |-> t]

TitleKey == <<Q, "t", "i", "t", "l", "e", Q>>

HexChars == <<"0", "1", "2", "3", "4", "5", "6", "7", "8", "9",
              "a", "b", "c", "d", "e", "f">>
HexUpper == <<"A", "B", "C", "D", "E", "F">>

IsHex(c) ==
    \/ \E k \in 1..16 : HexChars[k] = c
    \/ \E k \in 1..6 : HexUpper[k] = c

HexOf(c) ==
    IF \E k \in 1..6 : HexUpper[k] = c
    THEN 9 + (CHOOSE k \in 1..6 : HexUpper[k] = c)
    ELSE (CHOOSE k \in 1..16 : HexChars[k] = c) - 1

\* the four hex digits after \u at position j (the backslash)
IsUEscape(s, j) ==
    /\ j + 5 <= Len(s)
    /\ s[j + 1] = "u"
    /\ \A k \in 2..5 : IsHex(s[j + k])

\* the code unit of the \uXXXX escape at position j
CodeOf(s, j) ==
    4096 * HexOf(s[j + 2]) + 256 * HexOf(s[j + 3])
    + 16 * HexOf(s[j + 4]) + HexOf(s[j + 5])

\* the characters U+0020 .. U+007E in code order
Printable == <<
    SP, "!", Q, "#", "$", "%", "&", "'", "(", ")", "*", "+", ",", "-", ".", "/",
    "0", "1", "2", "3", "4", "5", "6", "7", "8", "9", ":", ";", "<", "=", ">", "?",
    "@", "A", "B", "C", "D", "E", "F", "G", "H", "I", "J", "K", "L", "M", "N", "O",
    "P", "Q", "R", "S", "T", "U", "V", "W", "X", "Y", "Z", "[", BS, "]", "^", "_",
    BT, "a", "b", "c", "d", "e", "f", "g", "h", "i", "j", "k", "l", "m", "n", "o",
    "p", "q", "r", "s", "t", "u", "v", "w", "x", "y", "z", "{", "|", "}", "~">>

\* json.encoder ESCAPE_DCT: how the character with code unit cp is written
\* in a serialised string (ensure_ascii)
EncodeUnit(cp) ==
    IF cp = 34 THEN <<BS, Q>>
    ELSE IF cp = 92 THEN <<BS, BS>>
    ELSE IF cp >= 32 /\ cp <= 126 THEN <<Printable[cp - 31]>>
    ELSE IF cp = 8 THEN <<BS, "b">>
    ELSE IF cp = 9 THEN <<BS, "t">>
    ELSE IF cp = 10 THEN <<BS, "n">>
    ELSE IF cp = 12 THEN <<BS, "f">>
    ELSE IF cp = 13 THEN <<BS, "r">>
    ELSE <<BS, "u", HexChars[(cp \div 4096) + 1], HexChars[((cp \div 256) % 16) + 1],
           HexChars[((cp \div 16) % 16) + 1], HexChars[(cp % 16) + 1]>>

\* end of the string literal opened at the quote before position j0:
\* position of the closing quote, 0 when the literal is invalid
\* (unterminated, bad escape, or a raw control character: strict mode)
RECURSIVE ScanString(_, _)
RECURSIVE ScanStringAt(_, _)
ScanString(s, j0) == ScanStringAt(s, NextIn(s, j0, {Q, BS} \cup Control))

\* j: the next quote, control character or backslash
ScanStringAt(s, j) ==
    IF j > Len(s) THEN 0
    ELSE IF s[j] = Q THEN j
    ELSE IF s[j] \in Control THEN 0
    ELSE IF j + 1 <= Len(s) /\ s[j + 1] \in EscChars
         THEN ScanString(s, j + 2)
    ELSE IF IsUEscape(s, j) THEN ScanString(s, j + 6)
    ELSE 0

\* the content s[j..e-1] of a valid string literal, decoded by
\* scanstring and written again by the encoder: \/ becomes /, a \uXXXX
\* escape becomes the character it names when that is printable
RECURSIVE Recode(_, _, _)
Recode(s, j, e) ==
    IF j >= e THEN <<>>
    ELSE IF s[j] # BS THEN <<s[j]>> \o Recode(s, j + 1, e)
    ELSE IF s[j + 1] = "/" THEN <<"/">> \o Recode(s, j + 2, e)
    ELSE IF s[j + 1] = "u" THEN EncodeUnit(CodeOf(s, j)) \o Recode(s, j + 6, e)
    ELSE <<BS, s[j + 1]>> \o Recode(s, j + 2, e)

\* the serialised string for the literal from the quote at i to the quote at e
StringOut(s, i, e) == <<Q>> \o Recode(s, i + 1, e) \o <<Q>>

RECURSIVE ScanDigits(_, _)
ScanDigits(s, i) ==
    IF i <= Len(s) /\ s[i] \in Digits THEN ScanDigits(s, i + 1) ELSE i

\* json.scanner NUMBER_RE: (-?(?:0|[1-9]\d*))(\.\d+)?([eE][-+]?\d+)?
\* position after the integer part that starts at i (after the sign),
\* 0 when no digit is there
IntEnd(s, i) ==
    IF i > Len(s) \/ s[i] \notin Digits THEN 0
    ELSE IF s[i] = "0" THEN i + 1
    ELSE ScanDigits(s, i)

\* position after the optional fraction that would start at m
FracEnd(s, m) ==
    IF m + 1 <= Len(s) /\ s[m] = "." /\ s[m + 1] \in Digits
    THEN ScanDigits(s, m + 1)
    ELSE m

\* position of the first digit of the optional exponent that would start
\* at m, 0 when there is no exponent
ExpDigits(s, m) ==
    IF m + 1 <= Len(s) /\ s[m] \in {"e", "E"} /\ s[m + 1] \in Digits
    THEN m + 1
    ELSE IF m + 2 <= Len(s) /\ s[m] \in {"e", "E"} /\ s[m + 1] \in {"+", "-"}
            /\ s[m + 2] \in Digits
    THEN m + 2
    ELSE 0

\* the exponent digits as a number, cut off where every double is
\* already infinite or zero
ExpCap == 100000

RECURSIVE NatOf(_)
NatOf(d) == IF d = <<>> THEN 0 ELSE 10 * NatOf(SubSeq(d, 1, Len(d) - 1)) + d[Len(d)]

ExpNat(d) == IF Len(d) > 5 THEN ExpCap ELSE NatOf(d)

\* the signed exponent written from position x (its first digit) to e - 1
ExpOf(s, x, e) ==
    IF x = 0 THEN 0
    ELSE IF s[x - 1] = "-" THEN 0 - ExpNat(StripZeros(DigitsOf(s, x, e - 1)))
    ELSE ExpNat(StripZeros(DigitsOf(s, x, e - 1)))

\* the decimal  digits * 10^(ex - fraction digits)
DecOf(ds, nf, ex) ==
    IF ex >= nf THEN Dec(StripZeros(ds \o Zeros(ex - nf)), 0)
    ELSE Dec(StripZeros(ds), nf - ex)

\* int(text) written again: no sign for zero
IntOut(neg, ds) ==
    (IF neg /\ ds # <<0>> THEN <<"-">> ELSE <<>>) \o CharsOf(ds)

\* float(text) written again by float.__repr__
FloatOut(neg, x) == (IF neg THEN <<"-">> ELSE <<>>) \o FloatRepr(x)

\* the number with integer part s[a..m-1], fraction s[m+1..f-1] when
\* f > m, and exponent digits from x when x > 0, ending before e
NumberOut(s, neg, a, m, f, x, e) ==
    IF f = m /\ x = 0 THEN IntOut(neg, DigitsOf(s, a, m - 1))
    ELSE FloatOut(neg, DecOf(DigitsOf(s, a, m - 1) \o DigitsOf(s, m + 1, f - 1),
                             IF f > m THEN f - m - 1 ELSE 0,
                             ExpOf(s, x, e)))

\* dict(pairs): a later member with the same key replaces the value and
\* keeps the place of the first
PutMember(acc, m) ==
    IF \E k \in 1..Len(acc) : acc[k].k = m.k
    THEN [k \in 1..Len(acc) |-> IF acc[k].k = m.k THEN m ELSE acc[k]]
    ELSE Append(acc, m)

RECURSIVE JoinMembers(_)
JoinMembers(acc) ==
    IF acc = <<>> THEN <<>>
    ELSE Head(acc).k \o <<":">> \o Head(acc).v
         \o (IF Len(acc) > 1 THEN <<",">> ELSE <<>>)
         \o JoinMembers(Tail(acc))

RECURSIVE JoinElems(_)
JoinElems(acc) ==
    IF acc = <<>> THEN <<>>
    ELSE Head(acc) \o (IF Len(acc) > 1 THEN <<",">> ELSE <<>>)
         \o JoinElems(Tail(acc))

\* kind of the value data['title'] would give: "none" when the key is absent
TitleKind(acc) ==
    IF \E k \in 1..Len(acc) : acc[k].k = TitleKey
    THEN IF (CHOOSE m \in {acc[k] : k \in 1..Len(acc)} : m.k = TitleKey).kind = "str"
         THEN "str" ELSE "other"
    ELSE "none"

RECURSIVE ParseValue(_, _)
RECURSIVE ParseMembers(_, _, _)
RECURSIVE ParseElems(_, _, _)
RECURSIVE MembersKey(_, _, _, _)
RECURSIVE MembersColon(_, _, _, _, _)
RECURSIVE MembersValue(_, _, _, _, _)
RECURSIVE MembersNext(_, _, _)
RECURSIVE ElemsValue(_, _, _)
RECURSIVE ElemsNext(_, _, _)
RECURSIVE ObjectOpen(_, _)
RECURSIVE ArrayOpen(_, _)

\* json.decoder.JSONObject, from the position i of a member's key
\* (whitespace already skipped): the key must open with a quote
ParseMembers(s, i, acc) ==
    IF i > Len(s) \/ s[i] # Q THEN PFail
    ELSE MembersKey(s, i, acc, ScanString(s, i + 1))

\* e: the closing quote of the key; then whitespace
MembersKey(s, i, acc, e) ==
    IF e = 0 THEN PFail
    ELSE MembersColon(s, i, acc, e, SkipWs(s, e + 1))

\* c: where the ':' has to be; then whitespace and the value
MembersColon(s, i, acc, e, c) ==
    IF c > Len(s) \/ s[c] # ":" THEN PFail
    ELSE MembersValue(s, i, acc, e, ParseValue(s, SkipWs(s, c + 1)))

\* v: the member's parsed value; then whitespace.  The key is the decoded
\* string, so two spellings of one key are one member.
MembersValue(s, i, acc, e, v) ==
    IF ~v.ok THEN PFail
    ELSE MembersNext(s,
                     PutMember(acc, [k |-> StringOut(s, i, e), v |-> v.out,
                                     kind |-> v.kind]),
                     SkipWs(s, v.pos))

\* d: where '}' or ',' has to be
MembersNext(s, acc, d) ==
    IF d > Len(s) THEN PFail
    ELSE IF s[d] = "}"
         THEN POk(d + 1, <<"{">> \o JoinMembers(acc) \o <<"}">>, "obj",
                  TitleKind(acc))
    ELSE IF s[d] = ","
         THEN ParseMembers(s, SkipWs(s, d + 1), acc)
    ELSE PFail

\* json.decoder.JSONArray, from the position i of an element
ParseElems(s, i, acc) == ElemsValue(s, acc, ParseValue(s, i))

\* v: the parsed element; then whitespace
ElemsValue(s, acc, v) ==
    IF ~v.ok THEN PFail
    ELSE ElemsNext(s, Append(acc, v.out), SkipWs(s, v.pos))

\* d: where ']' or ',' has to be
ElemsNext(s, acc, d) ==
    IF d > Len(s) THEN PFail
    ELSE IF s[d] = "]"
         THEN POk(d + 1, <<"[">> \o JoinElems(acc) \o <<"]">>, "arr", "none")
    ELSE IF s[d] = ","
         THEN ParseElems(s, SkipWs(s, d + 1), acc)
    ELSE PFail

\* e: the closing quote of the string literal opened at i
StringValue(s, i, e) ==
    IF e = 0 THEN PFail ELSE POk(e + 1, StringOut(s, i, e), "str", "none")

\* the number that starts at i (its sign there when neg): a its first
\* digit, m the end of the integer part, f of the fraction, x the first
\* exponent digit
NumberExpValue(s, neg, a, m, f, x, e) ==
    POk(e, NumberOut(s, neg, a, m, f, x, e), "num", "none")

NumberFracValue(s, neg, a, m, f, x) ==
    NumberExpValue(s, neg, a, m, f, x, IF x = 0 THEN f ELSE ScanDigits(s, x))

NumberIntValue(s, neg, a, m, f) ==
    NumberFracValue(s, neg, a, m, f, ExpDigits(s, f))

\* m = 0: NUMBER_RE does not match at i
NumberValue(s, neg, a, m) ==
    IF m = 0 THEN (IF neg /\ StartsAt(s, a, InfinityChars)
                   THEN POk(a + 8, <<"-">> \o InfinityChars, "num", "none")
                   ELSE PFail)
    ELSE NumberIntValue(s, neg, a, m, FracEnd(s, m))

\* j: the first non-blank position after '{'
ObjectOpen(s, j) ==
    IF j <= Len(s) /\ s[j] = "}"
    THEN POk(j + 1, <<"{", "}">>, "obj", "none")
    ELSE ParseMembers(s, j, <<>>)

\* j: the first non-blank position after '['
ArrayOpen(s, j) ==
    IF j <= Len(s) /\ s[j] = "]"
    THEN POk(j + 1, <<"[", "]">>, "arr", "none")
    ELSE ParseElems(s, j, <<>>)

NullChars == <<"n", "u", "l", "l">>
TrueChars == <<"t", "r", "u", "e">>
FalseChars == <<"f", "a", "l", "s", "e">>
NaNChars == <<"N", "a", "N">>

\* json.scanner scan_once at position i
ParseValue(s, i) ==
    IF i > Len(s) THEN PFail
    ELSE IF s[i] = Q THEN StringValue(s, i, ScanString(s, i + 1))
    ELSE IF s[i] = "{" THEN ObjectOpen(s, SkipWs(s, i + 1))
    ELSE IF s[i] = "[" THEN ArrayOpen(s, SkipWs(s, i + 1))
    ELSE IF StartsAt(s, i, NullChars) THEN POk(i + 4, NullChars, "null", "none")
    ELSE IF StartsAt(s, i, TrueChars) THEN POk(i + 4, TrueChars, "bool", "none")
    ELSE IF StartsAt(s, i, FalseChars) THEN POk(i + 5, FalseChars, "bool", "none")
    ELSE IF s[i] \in Digits THEN NumberValue(s, FALSE, i, IntEnd(s, i))
    ELSE IF s[i] = "-" THEN NumberValue(s, TRUE, i + 1, IntEnd(s, i + 1))
    ELSE IF StartsAt(s, i, NaNChars) THEN POk(i + 3, NaNChars, "num", "none")
    ELSE IF StartsAt(s, i, InfinityChars)
         THEN POk(i + 8, InfinityChars, "num", "none")
    ELSE PFail

\* the end check of JSONDecoder.decode: only whitespace may follow the value
LoadsEnd(s, v) ==
    IF v.ok /\ SkipWs(s, v.pos) = Len(s) + 1 THEN v ELSE PFail

\* json.loads(s): JSONDecoder.decode, which allows whitespace around the
\* one value and nothing else
JsonLoads(s) == LoadsEnd(s, ParseValue(s, SkipWs(s, 1)))

JsonParses(s) == JsonLoads(s).ok

---------------------------------------------------------------------------
(* The extraction steps of scrape_scholarship (scrape-all-smarterselect.py)*)
(* and scrape_one_scholarship (scrape-one-smarterselect.py)                *)

FENCE == <<BT, BT, BT>>
JSONTAG == <<"j", "s", "o", "n">>

\* where the lazy group of code_block_pattern stops: the first position at
\* or after q where \n?``` matches, 0 when there is none
CloseAt(s, q) ==
    MinOr({e \in q..Len(s) :
              StartsAt(s, e, FENCE) \/ (s[e] = NL /\ StartsAt(s, e + 1, FENCE))},
          0)

\* first position at or after p where ``` starts, 0 when there is none
OpenAt(s, p) == MinOr({e \in p..Len(s) : StartsAt(s, e, FENCE)}, 0)

RECURSIVE CodeBlocksFrom(_, _)
RECURSIVE BlockAt(_, _)
RECURSIVE BlockBody(_, _)
RECURSIVE BlockClose(_, _, _)

\* re.findall(r'```(?:json)?\s*\n?([\s\S]*?)\n?```', s) from position p0:
\* the captured groups of the successive non-overlapping matches
CodeBlocksFrom(s, p0) == BlockAt(s, OpenAt(s, p0))

\* p: the opening ```; then (?:json)? and \s*
BlockAt(s, p) ==
    IF p = 0 THEN <<>>
    ELSE BlockBody(s, SkipWs(s, IF StartsAt(s, p + 3, JSONTAG)
                                THEN p + 7 ELSE p + 3))

\* q: where the captured group starts
BlockBody(s, q) == BlockClose(s, q, CloseAt(s, q))

\* e: where \n?``` closes the match
BlockClose(s, q, e) ==
    IF e = 0 THEN <<>>
    ELSE <<Slice(s, q, e - 1)>>
         \o CodeBlocksFrom(s, IF StartsAt(s, e, FENCE) THEN e + 3 ELSE e + 4)

CodeBlocks(s) == CodeBlocksFrom(s, 1)

RECURSIVE FirstParsingBlock(_)
RECURSIVE BlockOrNext(_, _)

\* the for-loop over code_blocks: block.strip() of the first block that
\* json.loads accepts; <<>> (json_str stays None) when none does
FirstParsingBlock(blocks) ==
    IF blocks = <<>> THEN <<>>
    ELSE BlockOrNext(Strip(Head(blocks)), Tail(blocks))

\* b: block.strip() of the block at hand
BlockOrNext(b, rest) ==
    IF JsonParses(b) THEN b ELSE FirstParsingBlock(rest)

RECURSIVE MatchBrace(_, _, _)
RECURSIVE MatchBraceAt(_, _, _)

\* the brace_count loop from position i0: position of the '}' at which the
\* counter returns to zero, 0 when the loop ends without a break
MatchBrace(s, i0, count) == MatchBraceAt(s, NextIn(s, i0, {"{", "}"}), count)

\* i: the next brace character
MatchBraceAt(s, i, count) ==
    IF i > Len(s) THEN 0
    ELSE IF s[i] = "{" THEN MatchBrace(s, i + 1, count + 1)
    ELSE IF count - 1 = 0 THEN i
    ELSE MatchBrace(s, i + 1, count - 1)

\* result[json_start:json_end], e being the '}' where the loop broke
BraceTo(s, json_start, e) ==
    IF e = 0 THEN <<>> ELSE SubSeq(s, json_start, e)

BraceFrom(s, json_start) ==
    IF json_start = 0 THEN <<>>
    ELSE BraceTo(s, json_start, MatchBrace(s, json_start, 0))

\* json_str of the direct extraction; <<>> when no '{' exists or the
\* counter never returns to zero
BraceCandidate(s) == BraceFrom(s, Find(s, "{"))

\* "if not json_str": the brace scan runs only when no fenced block parsed
PickCandidate(fb, s) ==
    IF fb # <<>> THEN [str |-> fb, via |-> "fence"]
    ELSE [str |-> BraceCandidate(s), via |-> "brace"]

\* json_str after both strategies, and the strategy it came from
Candidate(s) == PickCandidate(FirstParsingBlock(CodeBlocks(s)), s)

RECURSIVE RepairFrom(_, _)
RECURSIVE RepairAt(_, _, _, _)

\* re.sub(r',\s*([}\]])', r'\1', s) from position i0
RepairFrom(s, i0) ==
    RepairAt(s, i0, NextIn(s, i0, {","}),
             SkipWs(s, NextIn(s, i0, {","}) + 1))

\* i: the next comma; j: the first non-blank position after it
RepairAt(s, i0, i, j) ==
    IF i > Len(s) THEN Slice(s, i0, Len(s))
    ELSE IF j <= Len(s) /\ s[j] \in {"}", "]"}
         THEN Slice(s, i0, i - 1) \o <<s[j]>> \o RepairFrom(s, j + 1)
    ELSE Slice(s, i0, i) \o RepairFrom(s, i + 1)

RepairCommas(s) == RepairFrom(s, 1)

\* what the extraction leaves behind: data (value, kind, title) when
\* status is "parsed"; "decode_error" is the re-raised JSONDecodeError;
\* "no_json" is the branch where json_str is empty and nothing parsed
XRes(st, v, cand, via, rep) ==
    [status |-> st, value |-> v.out, kind |-> v.kind, title |-> v.title,
     candidate |-> cand, via |-> via, repaired |-> rep]

NoXRes == XRes("none", PFail, <<>>, "none", FALSE)

\* the inner try: json.loads(fixed_json), w being its outcome
ParseRetry(json_str, via, w) ==
    IF w.ok THEN XRes("parsed", w, json_str, via, TRUE)
    ELSE XRes("decode_error", PFail, json_str, via, TRUE)

\* the outer try: json.loads(json_str), v being its outcome; on failure
\* the one retry on the repaired text
ParseFirst(json_str, via, v) ==
    IF v.ok THEN XRes("parsed", v, json_str, via, FALSE)
    ELSE ParseRetry(json_str, via, JsonLoads(RepairCommas(json_str)))

ParseCandidate(json_str, via) == ParseFirst(json_str, via, JsonLoads(json_str))

\* the parse attempted without the "if json_str" test
AllFromUnchecked(c) == ParseCandidate(c.str, c.via)

\* scrape-all-smarterselect.py: "if json_str: ... else:" the error branch
AllFrom(c) ==
    IF c.str # <<>> THEN ParseCandidate(c.str, c.via)
    ELSE XRes("no_json", PFail, <<>>, "none", FALSE)

ExtractAll(s) == AllFrom(Candidate(s))

\* the fallback json.loads(result), v being its outcome
WholeText(v) ==
    IF v.ok THEN XRes("parsed", v, <<>>, "whole", FALSE)
    ELSE XRes("decode_error", PFail, <<>>, "whole", FALSE)

\* scrape-one-smarterselect.py: no candidate falls back to json.loads(result)
OneFrom(c, s) ==
    IF c.str # <<>> THEN ParseCandidate(c.str, c.via)
    ELSE WholeText(JsonLoads(s))

ExtractOne(s) == OneFrom(Candidate(s), s)

\* what a script reports for one text: success or not, the failure reason,
\* the exception type where the script reports one, whether a record was
\* saved
Report(ok, err, exc, saved) ==
    [success |-> ok, error |-> err, exceptionType |-> exc, saved |-> saved]

NoReport == Report(FALSE, "", "", FALSE)

\* scrape-all-smarterselect.py: the dict scrape_scholarship returns after
\* the extraction x (record file written, lines 326-334; the re-raised
\* JSONDecodeError caught at 346-348; the else branch at 335-340)
AllReport(x) ==
    IF x.status = "parsed" THEN Report(TRUE, "", "", TRUE)
    ELSE IF x.status = "decode_error"
         THEN Report(FALSE, "str(JSONDecodeError)", "", FALSE)
    ELSE Report(FALSE, "No valid JSON found", "", FALSE)

\* the exception of data["sourceUrl"] = ...slugify(data['title']) for a
\* parsed value x that is no object with a string title
SourceUrlError(x) ==
    IF x.kind # "obj" THEN "TypeError"
    ELSE IF x.title = "none" THEN "KeyError"
    ELSE "AttributeError"

\* scrape-one-smarterselect.py: the RESULT line printed after the
\* extraction x; every exception ends in the one failure RESULT
OneReport(x) ==
    IF x.status = "parsed"
    THEN IF x.kind = "obj" /\ x.title = "str"
         THEN Report(TRUE, "", "", FALSE)
         ELSE Report(FALSE, "Failed to parse scholarship data",
                     SourceUrlError(x), FALSE)
    ELSE Report(FALSE, "Failed to parse scholarship data",
                "JSONDecodeError", FALSE)

---------------------------------------------------------------------------
(* Agent texts for the extraction routines: a text is the concatenation of *)
(* up to MaxParts pieces of the catalogue                                  *)

MaxParts == 3

QA == <<Q, "a", Q>>

Piece(k, c, b) == [kind |-> k, chars |-> c, body |-> b]

\* "prose": text with no brace, quote or backtick
\* "ticks": prose that holds ```
\* "object": one valid JSON object (body = chars)
\* "trailing": body is a valid JSON object and chars is body with one comma
\*             put before its last closing brace
\* "broken": brace-delimited text with two syntax errors
\* "fence": ``` [json] body ```; the body of one of them is an object
\*          whose string value holds ```
\* "junk": a stray closing brace
\* "blank": whitespace only
Catalog == <<
    \* a<space>
    Piece("prose", <<"a", SP>>, <<>>),
    \* {"a":1}
    Piece("object", <<"{">> \o QA \o <<":", "1", "}">>,
                    <<"{">> \o QA \o <<":", "1", "}">>),
    \* {"a":{"a":"{1}"}}
    Piece("object",
          <<"{">> \o QA \o <<":", "{">> \o QA \o <<":", Q, "{", "1", "}", Q, "}", "}">>,
          <<"{">> \o QA \o <<":", "{">> \o QA \o <<":", Q, "{", "1", "}", Q, "}", "}">>),
    \* {"a":"\"}"}
    Piece("object", <<"{">> \o QA \o <<":", Q, BS, Q, "}", Q, "}">>,
                    <<"{">> \o QA \o <<":", Q, BS, Q, "}", Q, "}">>),
    \* {"a":"{"}
    Piece("object", <<"{">> \o QA \o <<":", Q, "{", Q, "}">>,
                    <<"{">> \o QA \o <<":", Q, "{", Q, "}">>),
    \* {"a":1, }
    Piece("trailing", <<"{">> \o QA \o <<":", "1", ",", SP, "}">>,
                      <<"{">> \o QA \o <<":", "1", SP, "}">>),
    \* {"a":",]",}
    Piece("trailing", <<"{">> \o QA \o <<":", Q, ",", "]", Q, ",", "}">>,
                      <<"{">> \o QA \o <<":", Q, ",", "]", Q, "}">>),
    \* {"a":1,,}
    Piece("broken", <<"{">> \o QA \o <<":", "1", ",", ",", "}">>, <<>>),
    \* ```json\n{"title":"a"}\n```
    Piece("fence",
          FENCE \o JSONTAG \o <<NL, "{">> \o TitleKey \o <<":">> \o QA \o <<"}", NL>> \o FENCE,
          <<NL, "{">> \o TitleKey \o <<":">> \o QA \o <<"}", NL>>),
    \* ```[1]```
    Piece("fence", FENCE \o <<"[", "1", "]">> \o FENCE, <<"[", "1", "]">>),
    \* ```a```
    Piece("fence", FENCE \o <<"a">> \o FENCE, <<"a">>),
    \* }
    Piece("junk", <<"}">>, <<>>),
    \* <space><newline>
    Piece("blank", <<SP, NL>>, <<>>),
    \* ```json\n{"a":"```"}\n```
    Piece("fence",
          FENCE \o JSONTAG \o <<NL, "{">> \o QA \o <<":", Q>> \o FENCE
              \o <<Q, "}", NL>> \o FENCE,
          <<NL, "{">> \o QA \o <<":", Q>> \o FENCE \o <<Q, "}", NL>>),
    \* a```<space>
    Piece("ticks", <<"a">> \o FENCE \o <<SP>>, <<>>)
>>

Pieces == 1..Len(Catalog)

\* the agent text the pieces ps stand for
Text(ps) == Flatten([k \in 1..Len(ps) |-> Catalog[ps[k]].chars])

---------------------------------------------------------------------------
(* Batch driver state that stays idle while the extraction is exercised    *)

NoSummary == [written |-> FALSE, torn |-> FALSE, results |-> <<>>]

\* the summary file after a json.dump that raised: no document
TornSummary == [written |-> FALSE, torn |-> TRUE, results |-> <<>>]

\* the process is running / has ended with exit code c
Running == [done |-> FALSE, code |-> 0]
Exited(c) == [done |-> TRUE, code |-> c]

\* no file name made
NamingIdle == labels = <<>> /\ named = <<>>

\* answers = None, nothing fetched
NoAnswers == [fetched |-> FALSE, loaded |-> "none"]

BatchIdle ==
    /\ driver = "none"
    /\ env = [key |-> TRUE, arg |-> "ok", mode |-> "run", file |-> "none", url |-> "none"]
    /\ exit = Running
    /\ out = <<>>
    /\ answers = NoAnswers
    /\ step = 0
    /\ pc = "idle"
    /\ idx = 0
    /\ results = <<>>
    /\ inflight = {}
    /\ runs = <<>>
    /\ outcome = <<>>
    /\ rawtext = <<>>
    /\ hung = FALSE
    /\ files = {}
    /\ summary = NoSummary

---------------------------------------------------------------------------
(* ExtractSpec: the agent text is built piece by piece, then one of the    *)
(* extraction routines is applied to it                                    *)

ExtractInit ==
    /\ parts = <<>>
    /\ script = "none"
    /\ xres = NoXRes
    /\ report = NoReport
    /\ BatchIdle
    /\ NamingIdle

AddPart(c) ==
    /\ script = "none"
    /\ Len(parts) < MaxParts
    /\ parts' = Append(parts, c)
    /\ UNCHANGED <<script, xres, report>>
    /\ UNCHANGED <<bvars, nvars>>

\* scrape-all-smarterselect.py, lines 276-340
RunAll ==
    /\ script = "none"
    /\ script' = "all"
    /\ xres' = ExtractAll(Text(parts))
    /\ report' = AllReport(ExtractAll(Text(parts)))
    /\ UNCHANGED parts
    /\ UNCHANGED <<bvars, nvars>>

\* scrape-one-smarterselect.py, lines 294-363
RunOne ==
    /\ script = "none"
    /\ script' = "one"
    /\ xres' = ExtractOne(Text(parts))
    /\ report' = OneReport(ExtractOne(Text(parts)))
    /\ UNCHANGED parts
    /\ UNCHANGED <<bvars, nvars>>

---------------------------------------------------------------------------
(* The other two result parsers of the batch drivers                       *)

\* data = json.loads(...), v being its outcome, with no retry
Loaded(v, json_str, via) ==
    IF v.ok THEN XRes("parsed", v, json_str, via, FALSE)
    ELSE XRes("decode_error", PFail, json_str, via, FALSE)

FirstLastParse(json_str) == Loaded(JsonLoads(json_str), json_str, "firstlast")

\* "if json_start >= 0 and json_end > json_start" (positions 1-based here,
\* 0 for absent; json_last is json_end - 1)
FirstLastCut(s, json_start, json_last) ==
    IF json_start >= 1 /\ json_last >= json_start
    THEN FirstLastParse(SubSeq(s, json_start, json_last))
    ELSE XRes("no_json", PFail, <<>>, "none", FALSE)

\* scrape-all-modular.py and scrape-aises-cobell.py: the text from the
\* first '{' to the last '}', parsed as it is
ExtractFirstLast(s) == FirstLastCut(s, Find(s, "{"), RFind(s, "}"))

\* scrape-all-modular.py, lines 95-115 (scrape-aises-cobell.py 115-139):
\* the parse, then the entry returned as by scrape-all-smarterselect.py
RunFirstLast ==
    /\ script = "none"
    /\ script' = "firstlast"
    /\ xres' = ExtractFirstLast(Text(parts))
    /\ report' = AllReport(ExtractFirstLast(Text(parts)))
    /\ UNCHANGED parts
    /\ UNCHANGED <<bvars, nvars>>

ExtractNext ==
    \/ \E c \in Pieces : AddPart(c)
    \/ RunAll
    \/ RunOne
    \/ RunFirstLast

ExtractSpec == ExtractInit /\ [][ExtractNext]_vars

\* the text between the opening ``` and the next ``` at e (0: none)
AfterFence(s, e) ==
    IF e = 0 THEN Slice(s, 4, Len(s)) ELSE Slice(s, 4, e - 1)

\* result_clean.split("```")[1] for a text that starts with ```
AfterFirstFence(s) == AfterFence(s, OpenAt(s, 4))

\* "if result_clean.startswith('json'): result_clean = result_clean[4:]"
StripTag(c) == IF StartsAt(c, 1, JSONTAG) THEN Slice(c, 5, Len(c)) ELSE c

\* "if result_clean.startswith('```'):" on the stripped text c
StripFence(c) ==
    IF StartsAt(c, 1, FENCE) THEN StripTag(AfterFirstFence(c)) ELSE c

StrippedParse(c) == Loaded(JsonLoads(c), c, "stripped")

\* scrape-all-scholarships.py scrape_scholarship, lines 74-81
ExtractStripped(s) == StrippedParse(StripFence(Strip(s)))

\* bool(data) is False: the empty object, array and string, and zero
Falsy(x) ==
    x.value \in {<<"{", "}">>, <<"[", "]">>, <<Q, Q>>, <<"0">>, <<"0", ".", "0">>,
                 <<"-", "0", ".", "0">>, FalseChars, NullChars}

---------------------------------------------------------------------------
(* The batch drivers                                                       *)

Drivers == {"smarterselect", "modular", "aises_cobell", "scholarships"}

\* number of labels of the run (the scripts list 11, 11, 8 and 11)
NumLabels == 2

\* SCHOLARSHIPS of scrape-all-smarterselect.py (the other drivers list
\* other labels the same way)
AllTitles == <<
    "BIE Internship Funding for STEM Students 2025-2026",
    "BIE Professional Development Funding for STEM Educators and Students 2025-2026",
    "BIE Professional Examination Funding 2025-2026",
    "Native Forward Community Impact Research Funding 2025-2026",
    "Native Forward CPA Examination Funding 2025-2026",
    "Miller Indigenous Economic Development Fellowship 2025-2026",
    "Native Forward Scholars Fund 2026-2027 Scholarship Application",
    "Native Forward Scholars Fund Internship Assistance Program 2025-2026",
    "Native Forward Scholars Fund Professional Development Assistance Program 2025-2026",
    "Native Forward Student Access Funding 2025-2026",
    "Native Forward Student Relief Funding Spring 2025-2026"
>>

\* the module-level list the loop enumerates
SCHOLARSHIPS == SubSeq(AllTitles, 1, NumLabels)

\* seconds given to asyncio.wait_for around agent.run()
TimeoutSmarterSelect == 300
TimeoutModular == 120
TimeoutAisesCobell == 180

\* the drivers that await agent.run() inside asyncio.wait_for; main of
\* scrape-all-scholarships.py awaits agent.run(max_steps=30) bare
TimedDrivers == {"smarterselect", "modular", "aises_cobell"}

TimeoutOf(d) ==
    CASE d = "smarterselect" -> TimeoutSmarterSelect
      [] d = "modular" -> TimeoutModular
      [] d = "aises_cobell" -> TimeoutAisesCobell

HasTimeout(d) == d \in TimedDrivers /\ TimeoutOf(d) > 0

\* the agent texts the batch model draws from, as pieces of the catalogue:
\* empty text, prose, a bare object, a fenced object, a trailing comma,
\* a twice-broken object
BatchTexts == {<<>>, <<1>>, <<2>>, <<9>>, <<6>>, <<8>>}

\* one entry of the results list ("raw_file" is set by WithRaw)
Entry(t, st, err, f) ==
    [title |-> t, status |-> st, error |-> err, file |-> f, raw_file |-> <<0, "">>]

\* the file name of item i's record (position and label)
FileOf(i) == <<i, SCHOLARSHIPS[i]>>
NoFile == <<0, "">>

\* the name of item i's raw output file
RawFileOf(i) == <<i, "raw_output">>

\* results.append(result) with the mutation of dropping an error entry
AppendUnlessError(res, e) ==
    IF e.status = "error" THEN res ELSE Append(res, e)

\* results.append(result) in scrape_all
AppendResult(res, e) == Append(res, e)

\* results["scholarships"].append({...}) in main
AppendScholarship(res, e) == Append(res, e)

Record(d, res, e) ==
    IF d = "scholarships" THEN AppendScholarship(res, e)
    ELSE AppendResult(res, e)

\* asyncio.wait_for leaving the timed-out task running
WaitForLeavesTask(running, i) == running

\* asyncio.wait_for on timeout: the agent task is cancelled before
\* TimeoutError is raised
WaitForCancels(running, i) == running \ {i}

\* history.final_result() or "": no final result becomes the empty text
\* (noResult: the agent run ended without a final result); texts are
\* given by their pieces
FinalTextOrEmpty(noResult, ps) == IF noResult THEN <<>> ELSE ps

NoWrite == {}

ItemError(i, err) ==
    [entry |-> Entry(SCHOLARSHIPS[i], "error", err, NoFile), write |-> NoWrite]

ItemFailed(i) ==
    [entry |-> Entry(SCHOLARSHIPS[i], "failed", "", NoFile), write |-> NoWrite]

\* the most characters a write that fails has put into its file
MaxWritten == 1

\* how writing a file ends: "ok"; "open_fails" (open() raises, no file);
\* "torn" (the write raises after open() created the file and n
\* characters went into it: an OSError of the device, or a
\* UnicodeEncodeError for a lone surrogate under ensure_ascii=False)
Wrote(how, n) == [how |-> how, n |-> n]

WriteOutcomes ==
    {Wrote("ok", 0), Wrote("open_fails", 0)}
    \cup {Wrote("torn", n) : n \in 0..MaxWritten}

\* what a json.dump that raised after n characters leaves in the file: a
\* proper prefix of the document v, the empty file included
Partial(v, n) == SubSeq(v, 1, IF n < Len(v) THEN n ELSE Len(v) - 1)

\* what the f.write calls of the raw output leave for the text s when one
\* of them raised after n characters of the text: the text may be complete
\* (the history is written after it)
PartialRaw(s, n) == SubSeq(s, 1, IF n < Len(s) THEN n ELSE Len(s))

\* the record is written and the success entry returned; wr: how the
\* write ends
ItemSaved(i, x, wr) ==
    IF wr.how = "ok"
    THEN [entry |-> Entry(SCHOLARSHIPS[i], "success", "", FileOf(i)),
          write |-> {[file |-> FileOf(i), data |-> x.value]}]
    ELSE IF wr.how = "open_fails" THEN ItemError(i, "str(OSError)")
    ELSE [entry |-> Entry(SCHOLARSHIPS[i], "error", "str(DumpError)", NoFile),
          write |-> {[file |-> FileOf(i), data |-> Partial(x.value, wr.n)]}]

\* the record saved whatever the parse gave
ItemSavedUnparsed(i, x, wr) == ItemSaved(i, x, wr)

\* scrape_scholarship of the three scrape_all drivers after the parse x
ItemParsed(i, x, wr) ==
    IF x.status = "parsed" THEN ItemSaved(i, x, wr)
    ELSE IF x.status = "decode_error" THEN ItemError(i, "str(JSONDecodeError)")
    ELSE ItemError(i, "No valid JSON found")

\* main of scrape-all-scholarships.py after the parse x: "if data:"
ItemScholarship(i, x, wr) ==
    IF x.status = "parsed"
    THEN IF Falsy(x) THEN ItemFailed(i) ELSE ItemSaved(i, x, wr)
    ELSE ItemError(i, "str(JSONDecodeError)")

\* scrape-all-smarterselect.py: the raw output file is written before the
\* extraction, and the missing-JSON entry names it; o is the outcome of
\* the extraction of the text s
WithRaw(i, s, o) ==
    [entry |-> IF o.entry.error = "No valid JSON found"
               THEN [o.entry EXCEPT !.raw_file = RawFileOf(i)]
               ELSE o.entry,
     write |-> o.write \cup {[file |-> RawFileOf(i), data |-> s]}]

\* the raw output could not be written (rw, as in WriteOutcomes): the
\* except Exception of the item records the error and nothing is extracted
RawFailed(i, s, rw) ==
    [entry |-> Entry(SCHOLARSHIPS[i], "error", "str(OSError)", NoFile),
     write |-> IF rw.how = "open_fails" THEN NoWrite
               ELSE {[file |-> RawFileOf(i), data |-> PartialRaw(s, rw.n)]}]

\* scrape_scholarship of scrape-all-smarterselect.py on the text s; rw:
\* how the write of the raw output ends
ItemSmarterSelect(i, s, rw, wr) ==
    IF rw.how = "ok" THEN WithRaw(i, s, ItemParsed(i, ExtractAll(s), wr))
    ELSE RawFailed(i, s, rw)

\* the "organization" of the entries of SCHOLARSHIPS in
\* scrape-aises-cobell.py, as JSON string literals
AISES == <<Q, "A", "I", "S", "E", "S", Q>>
COBELL == <<Q, "C", "o", "b", "e", "l", "l", Q>>
Organizations == <<AISES, AISES, COBELL, COBELL, COBELL, COBELL, COBELL, COBELL>>

\* the key of data['organization']
OrganizationKey == <<
    Q, "o", "r", "g", "a", "n", "i", "z", "a", "t", "i", "o", "n", Q
>>

\* the key of data['sourceUrl']
SourceUrlKey == <<
    Q, "s", "o", "u", "r", "c", "e", "U", "r", "l", Q
>>

\* the value given to data['sourceUrl'] in scrape-aises-cobell.py
AisesSourceUrl == <<
    Q, "h", "t", "t", "p", "s", ":", "/", "/", "a", "i", "s", "e", "s",
    ".", "a", "w", "a", "r", "d", "s", "p", "r", "i", "n", "g", ".", "c",
    "o", "m", "/", "A", "C", "T", "I", "O", "N", "S", "/", "W", "e", "l",
    "c", "o", "m", "e", ".", "c", "f", "m", Q
>>

\* the two members "Add metadata" assigns for item i
Metadata(i) ==
    OrganizationKey \o <<":">> \o Organizations[i] \o <<",">>
    \o SourceUrlKey \o <<":">> \o AisesSourceUrl

\* data['organization'] = org; data['sourceUrl'] = ... on the object of
\* serialisation v: a key already there keeps its place and takes the new
\* value, a new key goes last (the members are appended to the text and
\* the dict rebuilt from it)
WithMetadata(i, v) ==
    JsonLoads(SubSeq(v, 1, Len(v) - 1)
              \o (IF Len(v) > 2 THEN <<",">> ELSE <<>>)
              \o Metadata(i) \o <<"}">>).out

\* the data the driver d saves for item i after the parse x: only
\* scrape-aises-cobell.py changes the parsed object
Annotated(d, i, x) ==
    IF d = "aises_cobell" /\ x.status = "parsed"
    THEN [x EXCEPT !.value = WithMetadata(i, x.value)]
    ELSE x

\* the result entry and the files written for one item once agent.run()
\* has returned with the text of pieces ps, per driver (rw: the write of
\* the raw output, which only scrape-all-smarterselect.py does)
ItemOutcome(d, i, noResult, ps, rw, wr) ==
    IF d = "smarterselect"
    THEN ItemSmarterSelect(i, Text(FinalTextOrEmpty(noResult, ps)), rw, wr)
    ELSE IF d \in {"modular", "aises_cobell"}
    THEN IF noResult THEN ItemError(i, "str(AttributeError)")
         ELSE ItemParsed(i, Annotated(d, i, ExtractFirstLast(Text(ps))), wr)
    ELSE IF noResult \/ ps = <<>> THEN ItemFailed(i)
         ELSE ItemScholarship(i, ExtractStripped(Text(ps)), wr)

\* the item taken up again after it ended
AfterItemRetry(d) == "try"

\* where the loop goes after an item: asyncio.sleep in scrape_all, straight
\* to the next iteration in main of scrape-all-scholarships.py
AfterItem(d) == IF d = "scholarships" THEN "loop" ELSE "sleep"

\* the scripts that run one agent and report through RESULT lines.
\* scrape-one-smarterselect.py, scrape-one-modular.py and
\* scrape-one-aises-cobell.py take a title
TitleScripts == {"one_smarterselect", "one_modular", "one_aises_cobell"}

\* discover-scholarships.py, discover-aises-cobell.py and
\* scrape-aises-cobell-public.py
DiscoverScripts == {"discover", "discover_aises_cobell", "aises_cobell_public"}

\* scrape-oasis-detailed.py and scrape-nativeforward-detailed-questions.py
DetailScripts == {"oasis_detailed", "nativeforward_questions"}

\* with complete-application.py and scrape-with-session.py
ResultScripts ==
    TitleScripts \cup DiscoverScripts \cup DetailScripts
        \cup {"complete_application", "with_session"}

\* the scripts that run one agent and print plain lines: scrape-by-title.py,
\* scrape-one-scholarship.py, scrape-scholarships-browser-use.py and
\* scrape-nativeforward-detailed.py
PlainScripts == {"by_title", "one_scholarship", "browser_use",
                 "nativeforward_detailed"}

\* the single-run scripts that run an agent (extract-oasis-session.py,
\* load-oasis-session.py and scrape-nativeforward-chrome.py run none)
Singles == PlainScripts \cup ResultScripts

Scripts == Drivers \cup Singles

\* the scripts whose argparse parser has a required option (--session-id)
ArgparseScripts == {"complete_application"} \cup DetailScripts

\* sys.argv[1] (or --session-id): absent, the empty string, or a value
Args == {"none", "blank", "ok"}

\* main / __main__ tests len(sys.argv) < 2 and calls sys.exit(1), or the
\* parser has a required option
ChecksArg(d) ==
    d \in {"by_title", "one_scholarship"} \cup TitleScripts \cup ArgparseScripts

ArgsOf(d) ==
    IF d \in ArgparseScripts THEN {"none", "ok"}
    ELSE IF ChecksArg(d) THEN Args ELSE {"ok"}

\* the options that choose the function __main__ runs: --list, --scholarship
\* or neither (complete-application.py); --scholarship without or with
\* --output, or neither (the detail scripts)
ModesOf(d) ==
    CASE d = "complete_application" -> {"list", "scholarship", "neither"}
      [] d \in DetailScripts -> {"all", "single", "single_output"}
      [] OTHER -> {"run"}

\* the script that takes prepared answers
TakesAnswers(d) == d = "complete_application"

\* --answers-file: not given, holding {} or holding answers, holding a
\* JSON number or true ("scalar": truthy, and len() raises on it), or a
\* file that open or json.load raises on
AnswerFiles == {"none", "empty", "some", "scalar", "unreadable"}

\* --answers-url: not given, or answering 200 with answers, 200 with a
\* number or true as the answers, 200 with no answers, or another status,
\* or the request raises, or it never answers (the script sets no timeout)
AnswerUrls == {"none", "ok_some", "ok_scalar", "ok_empty", "not_ok", "raises",
               "hangs"}

\* "not answers" is false
Truthy(a) == a \in {"file", "url"}

\* answers = prepared_answers
FromFile(file) ==
    CASE file = "none" -> "none"
      [] file = "empty" -> "empty"
      [] file \in {"some", "scalar"} -> "file"
      [] file = "unreadable" -> "none"

\* answers = data.get('answers', {}) when response.status == 200
FromUrl(url, a) ==
    CASE url \in {"ok_some", "ok_scalar"} -> "url"
      [] url = "ok_empty" -> "empty"
      [] OTHER -> a

\* the fetch done whatever the file gave
FetchesAlways(url, a) == url # "none"

\* if answers_url and not answers: fetch
Fetches(url, a) == url # "none" /\ ~Truthy(a)

\* len(answers) raises: the answers in use are a number or true
NoLen(e, a) ==
    \/ a.loaded = "file" /\ e.file = "scalar"
    \/ a.loaded = "url" /\ e.url = "ok_scalar"

\* lines of the stdout protocol
Line(kind, cur, payload) == [kind |-> kind, cur |-> cur, payload |-> payload]
Status == Line("STATUS", 0, "message")
Progress(n) == Line("PROGRESS", n, "message")
\* RESULT: followed by the output of json.dumps
ResultJson == Line("RESULT", 0, "json")
\* RESULT: followed by str() of what agent.run() returned
ResultRaw == Line("RESULT", 0, "raw")

\* the batch drivers that print STATUS, PROGRESS and RESULT lines
Prints(d) == d \in {"smarterselect", "modular", "aises_cobell"}

\* scrape_all before the loop
Opening(d) == IF Prints(d) THEN <<Status, Progress(0)>> ELSE <<>>

\* the first lines of scrape_scholarship(title, index, ...): index+1 = i
ItemOpening(d, i) == IF Prints(d) THEN <<Progress(i), Status>> ELSE <<>>

\* "STATUS: Saved" after the record file was written
ItemClosing(d, st) == IF Prints(d) /\ st = "success" THEN <<Status>> ELSE <<>>

\* scrape_all after the summary file was written
Closing(d) ==
    IF Prints(d) THEN <<Status, Progress(Len(SCHOLARSHIPS)), ResultJson>>
    ELSE <<>>

\* what __main__ / main does with the arguments: "usage" (sys.exit(1), or
\* parser.error), "no_title" (scrape_one_scholarship returns on "not
\* title"), "no_mode" (neither --list nor --scholarship), else "go"
Dispatch(d, e) ==
    CASE ChecksArg(d) /\ e.arg = "none" -> "usage"
      [] d = "one_scholarship" /\ e.arg = "blank" -> "usage"
      [] d \in TitleScripts /\ e.arg = "blank" -> "no_title"
      [] d = "complete_application" /\ e.mode = "neither" -> "no_mode"
      [] OTHER -> "go"

\* the usage error of __main__, and "Scholarship title is required"
UsagePrints(d) == IF d \in TitleScripts THEN <<ResultJson>> ELSE <<>>

DispatchPrints(d, w) ==
    IF w \in {"usage", "no_title"} THEN UsagePrints(d) ELSE <<>>

\* the steps of a run outside any try, in source order: "print" a STATUS
\* line, "print_key" a STATUS line that reads a key of the session data,
\* "print_len" the STATUS line with len(answers), "key" the OPENAI_API_KEY
\* test, "answers_file" the json.load of __main__, "session"
\* load_session_from_api or the session file, "cookies"
\* get_portal_session_cookies, "answers" answers = prepared_answers,
\* "fetch" the request to the answers URL, "response" the reading of its
\* answer, "check" the test "if not answers", and the constructors "llm",
\* "controller", "browser", "agent"
SetupOf(d, m) ==
    CASE d \in {"by_title", "one_scholarship", "nativeforward_detailed"} ->
             <<"key", "llm", "agent">>
      [] d = "browser_use" -> <<"key", "key", "llm", "agent">>
      [] d = "one_smarterselect" ->
             <<"print", "print", "llm", "cookies", "browser">>
      [] d \in {"one_modular", "one_aises_cobell"} ->
             <<"print", "print", "llm", "controller">>
      [] d = "discover" -> <<"print", "llm", "cookies", "browser">>
      [] d \in {"discover_aises_cobell", "aises_cobell_public"} ->
             <<"print", "llm", "controller">>
      [] d = "complete_application" /\ m = "scholarship" ->
             <<"answers_file", "print", "session", "print_key", "print_key",
               "answers", "fetch", "response", "check", "print_len",
               "llm", "controller">>
      [] d = "with_session" -> <<"session", "print_key", "llm", "controller">>
      [] d \in DetailScripts /\ m \in {"single", "single_output"} ->
             <<"print", "session", "print", "llm", "controller">>
      [] OTHER ->
             <<"print", "session", "print", "print", "llm", "controller">>

\* the steps inside the try, up to agent.run()
TryOf(d, m) ==
    CASE d \in PlainScripts -> <<>>
      [] d \in DiscoverScripts \ {"discover"} -> <<"print", "progress", "agent">>
      [] d \in DetailScripts -> <<"browser", "agent">>
      [] d = "complete_application" ->
             IF m = "list" THEN <<"browser", "agent">>
             ELSE <<"print", "browser", "agent">>
      [] OTHER -> <<"print", "agent">>

Prog(d, m) == SetupOf(d, m) \o TryOf(d, m)

\* the steps that can raise, and those with two outcomes
Fallible == {"session", "print_key", "llm", "controller", "browser", "agent"}
TwoWay(op) == op \in Fallible \cup {"cookies"}

\* the steps about the prepared answers, each with an action of its own
AnswerOps == {"answers", "fetch", "response", "check"}

\* how a step ends: the run goes on ("next"), sys.exit(1) ("exit"), or an
\* exception ("raise")
OpOutcome(op, ok, e, a) ==
    CASE op = "key" -> IF e.key THEN "next" ELSE "exit"
      [] op = "answers_file" -> IF e.file = "unreadable" THEN "raise" ELSE "next"
      [] op = "print_len" -> IF NoLen(e, a) THEN "raise" ELSE "next"
      [] op \in Fallible -> IF ok THEN "next" ELSE "raise"
      [] OTHER -> "next"

\* what a step that went on has printed; get_portal_session_cookies prints
\* its warning when it caught an exception
OpPrints(op, ok) ==
    CASE op \in {"print", "print_key", "print_len"} -> <<Status>>
      [] op = "progress" -> <<Progress(0)>>
      [] op = "cookies" -> IF ok THEN <<>> ELSE <<Status>>
      [] OTHER -> <<>>

\* how one run of a single-run script ends once agent.run() is awaited.
\* "data": the text gave the data the script reads; "no_key": it gave an
\* object without the key "scholarships", which the fallback of a discover
\* script reports with a count of 0; "bad_shape": it gave
\* JSON without the key or shape the script reads next; "no_candidate": no
\* brace pair; "decode_error": json.loads raised; "write_fails": the output
\* file could not be opened; "torn": json.dump raised after open() made
\* the output file; "scalar": it gave a JSON string or number, whose
\* data.get raises after the output file was opened; "no_text": agent.run()
\* returned an object that is no text, in a script that calls result.find
\* on it (scrape-one-modular.py and scrape-one-aises-cobell.py then put
\* it into the RESULT of their handler); "raised": agent.run() raised;
\* "raised_decode": agent.run() raised a json.JSONDecodeError
EndingsOf(d, m) ==
    CASE d \in {"by_title", "one_scholarship"} ->
             {"data", "decode_error", "write_fails", "torn", "raised"}
      [] d = "browser_use" ->
             {"data", "bad_shape", "decode_error", "write_fails", "torn", "raised"}
      [] d = "nativeforward_detailed" ->
             {"data", "bad_shape", "scalar", "decode_error", "write_fails",
              "torn", "raised"}
      [] d = "one_smarterselect" ->
             {"data", "bad_shape", "no_candidate", "decode_error", "raised"}
      [] d \in TitleScripts ->
             {"data", "bad_shape", "no_candidate", "decode_error", "no_text",
              "raised"}
      [] d \in DiscoverScripts ->
             {"data", "no_key", "bad_shape", "decode_error", "no_text",
              "raised", "raised_decode"}
      [] d \in {"complete_application", "with_session"} ->
             {"data", "no_candidate", "raised"}
      [] d \in DetailScripts /\ m = "all" ->
             {"data", "bad_shape", "no_candidate", "decode_error",
              "write_fails", "torn", "no_text", "raised"}
      [] d \in DetailScripts /\ m = "single_output" ->
             {"data", "no_candidate", "decode_error", "write_fails", "torn",
              "no_text", "raised"}
      [] OTHER -> {"data", "no_candidate", "decode_error", "no_text", "raised"}

\* every way a run can end
Endings == UNION {EndingsOf(d, m) : d \in Singles, m \in UNION {ModesOf(e) : e \in Singles}}

\* the endings in which the agent text held JSON
ParsedEndings == {"data", "no_key", "bad_shape", "scalar", "write_fails", "torn"}

\* printed after agent.run() ended
EndPrints(d, m, how) ==
    CASE d \in TitleScripts ->
             IF how = "data" THEN <<Status, ResultJson>>
             ELSE IF how = "no_text" THEN <<>>
             ELSE <<ResultJson>>
      [] d \in DiscoverScripts ->
             IF how \in {"raised", "bad_shape", "no_text"} THEN <<ResultJson>>
             ELSE IF how = "raised_decode" THEN <<Status>>
             ELSE IF how = "decode_error" \/ d = "discover"
             THEN <<Status, ResultJson>>
             ELSE <<Progress(1), Status, ResultJson>>
      [] d = "complete_application" /\ m = "list" ->
             IF how = "raised" THEN <<>> ELSE <<ResultRaw>>
      [] d \in {"complete_application", "with_session"} ->
             IF how = "raised" THEN <<ResultJson>> ELSE <<ResultRaw>>
      [] d \in DetailScripts ->
             IF how = "no_candidate" THEN <<ResultRaw>>
             ELSE IF how = "data" /\ m = "all" THEN <<Status, Status, ResultJson>>
             ELSE IF how = "bad_shape" \/ (how = "data" /\ m = "single_output")
             THEN <<Status, ResultJson>>
             ELSE <<ResultJson>>
      [] OTHER -> <<>>

\* the argument of every sys.exit call in the scripts
SysExit == 1

\* the process ends by falling off the end of the script (exit code 0), or
\* by an exception that leaves asyncio.run (the interpreter's exit code 1)
Completed == Exited(0)
Uncaught == Exited(1)

\* exit code of the argument test: sys.exit(1), or 2 from parser.error
UsageExit(d) == IF d \in ArgparseScripts THEN 2 ELSE SysExit

DispatchExit(d, w) ==
    CASE w = "usage" -> Exited(UsageExit(d))
      [] w = "go" -> Running
      [] OTHER -> Completed

\* how the process ends after agent.run().  main of
\* scrape-scholarships-browser-use.py calls sys.exit(1) on "if not
\* scholarships" and saves outside any try; main of
\* scrape-nativeforward-detailed.py reads scholarships[0].get; the except
\* json.JSONDecodeError of the discover scripts reads result; json.dumps
\* in the handler of scrape-one-modular.py and scrape-one-aises-cobell.py
\* raises on a result that is no text
EndExit(d, m, how) ==
    CASE d = "browser_use" ->
             IF how = "data" THEN Completed
             ELSE IF how \in {"write_fails", "torn"} THEN Uncaught
             ELSE Exited(SysExit)
      [] d \in TitleScripts /\ how = "no_text" -> Uncaught
      [] d = "nativeforward_detailed" /\ how = "bad_shape" -> Uncaught
      [] d \in DiscoverScripts /\ how = "raised_decode" -> Uncaught
      [] OTHER -> Completed

\* the output file of a single-run script
OutputFile == [file |-> "output"]

\* the run has written its output file
WritesFile(d, m, how) ==
    CASE d \in {"by_title", "one_scholarship", "browser_use"} ->
             how \in {"data", "torn"}
      [] d = "nativeforward_detailed" ->
             how \in {"data", "bad_shape", "scalar", "torn"}
      [] d \in DetailScripts /\ m = "all" -> how \in {"data", "bad_shape", "torn"}
      [] d \in DetailScripts /\ m = "single_output" -> how \in {"data", "torn"}
      [] OTHER -> FALSE

\* what a process of script d can be given; a batch driver takes no argument
EnvOf(d) ==
    IF d \in Drivers
    THEN [key : BOOLEAN, arg : {"ok"}, mode : {"run"}, file : {"none"}, url : {"none"}]
    ELSE [key : BOOLEAN,
          arg : ArgsOf(d),
          mode : ModesOf(d),
          file : IF TakesAnswers(d) THEN AnswerFiles ELSE {"none"},
          url : IF TakesAnswers(d) THEN AnswerUrls ELSE {"none"}]

Init ==
    /\ parts = <<>>
    /\ script = "none"
    /\ xres = NoXRes
    /\ report = NoReport
    /\ NamingIdle
    /\ driver \in Scripts
    /\ env \in EnvOf(driver)
    /\ exit = Running
    /\ out = <<>>
    /\ answers = NoAnswers
    /\ step = 0
    /\ pc = "start"
    /\ idx = 0
    /\ results = <<>>
    /\ inflight = {}
    /\ runs = [k \in 1..NumLabels |-> 0]
    /\ outcome = [k \in 1..NumLabels |-> "pending"]
    /\ rawtext = [k \in 1..NumLabels |-> <<>>]
    /\ hung = FALSE
    /\ files = {}
    /\ summary = NoSummary

\* scrape_all / main up to the loop: mkdir (mk: it does not raise), the
\* opening prints, results = []
Start(mk) ==
    /\ driver \in Drivers
    /\ pc = "start"
    /\ pc' = IF mk THEN "loop" ELSE "aborted"
    /\ exit' = IF mk THEN exit ELSE Uncaught
    /\ out' = IF mk THEN out \o Opening(driver) ELSE out
    /\ UNCHANGED <<driver, env, rawtext, idx, results, inflight, runs, outcome, hung,
                   files, summary>>
    /\ UNCHANGED <<xvars, nvars, answers, step>>

\* the driver that awaits get_portal_session_storage_file() for each item
LoadsSession(d) == d = "smarterselect"

\* the next iteration enters scrape_scholarship: the prints, then the LLM
\* and controller are built (ok: neither raises).  Only main of
\* scrape-all-scholarships.py has them inside a try.
BeginItem(ok) ==
    /\ pc = "loop"
    /\ idx < NumLabels
    /\ idx' = idx + 1
    /\ IF ok
       THEN /\ pc' = IF LoadsSession(driver) THEN "session" ELSE "try"
            /\ UNCHANGED <<results, outcome>>
       ELSE /\ outcome' = [outcome EXCEPT ![idx + 1] = "setup_failed"]
            /\ IF driver = "scholarships"
               THEN /\ results' = Record(driver, results,
                                         Entry(SCHOLARSHIPS[idx + 1], "error",
                                               "str(SetupError)", NoFile))
                    /\ pc' = "loop"
               ELSE /\ pc' = "aborted"
                    /\ UNCHANGED results
    /\ exit' = IF ~ok /\ driver # "scholarships"
               THEN Uncaught ELSE exit
    /\ UNCHANGED <<driver, env, rawtext, inflight, runs, hung, files, summary>>
    /\ out' = out \o ItemOpening(driver, idx + 1)
    /\ UNCHANGED <<xvars, nvars, answers, step>>

\* how the try of get_portal_session_storage_file ends: with a storage
\* file or None and no protocol line, or in its except Exception, which
\* prints the warning and gives None
SessionOutcomes == {"quiet", "warned"}

SessionPrints(how) == IF how = "warned" THEN <<Status>> ELSE <<>>

\* get_portal_session_storage_file up to its finally
LoadSession(how) ==
    /\ pc = "session"
    /\ pc' = "browser"
    /\ out' = out \o SessionPrints(how)
    /\ UNCHANGED <<driver, env, exit, rawtext, idx, results, inflight, runs, outcome,
                   hung, files, summary>>
    /\ UNCHANGED <<xvars, nvars, answers, step>>

\* the finally of get_portal_session_storage_file (conn.close()), then
\* Browser(...), outside any try (ok: neither raises)
BuildBrowser(ok) ==
    /\ pc = "browser"
    /\ pc' = IF ok THEN "try" ELSE "aborted"
    /\ outcome' = IF ok THEN outcome ELSE [outcome EXCEPT ![idx] = "setup_failed"]
    /\ exit' = IF ok THEN exit ELSE Uncaught
    /\ UNCHANGED <<driver, env, out, rawtext, idx, results, inflight, runs, hung,
                   files, summary>>
    /\ UNCHANGED <<xvars, nvars, answers, step>>

\* what is raised inside the try of an item: some exception, or a
\* TimeoutError (asyncio.TimeoutError is the builtin TimeoutError)
RaiseKinds == {"error", "timeout_error"}

\* the handler that takes it: except asyncio.TimeoutError comes first in
\* the drivers that have it
RaisedError(d, kind) ==
    IF kind = "timeout_error" /\ d \in TimedDrivers THEN "Timeout"
    ELSE "str(AgentError)"

\* Agent(...) raises inside the try
AgentInitRaises(kind) ==
    /\ driver \in Drivers
    /\ pc = "try"
    /\ outcome' = [outcome EXCEPT ![idx] = "raised"]
    /\ results' = Record(driver, results,
                         Entry(SCHOLARSHIPS[idx], "error",
                               RaisedError(driver, kind), NoFile))
    /\ pc' = AfterItem(driver)
    /\ UNCHANGED <<driver, env, exit, rawtext, idx, inflight, runs, hung, files, summary>>
    /\ UNCHANGED out
    /\ UNCHANGED <<xvars, nvars, answers, step>>

\* agent.run() is started and awaited (h: this run never returns by itself)
StartAgent(h) ==
    /\ pc = "try"
    /\ inflight' = inflight \cup {idx}
    /\ runs' = [runs EXCEPT ![idx] = @ + 1]
    /\ hung' = h
    /\ pc' = "await"
    /\ UNCHANGED <<driver, env, exit, rawtext, idx, results, outcome, files, summary>>
    /\ UNCHANGED out
    /\ UNCHANGED <<xvars, nvars, answers, step>>

\* agent.run() returns; the rest of the item is processed (without the
\* API key no LLM call succeeds, so the run has no final result).  rw, wr:
\* how the writes of the raw output and of the record end.
AgentReturns(noResult, ps, rw, wr) ==
    /\ driver \in Drivers
    /\ pc = "await"
    /\ ~hung
    /\ ~env.key => noResult
    /\ driver # "smarterselect" => rw.how = "ok"
    /\ results' = Record(driver, results,
                         ItemOutcome(driver, idx, noResult, ps, rw, wr).entry)
    /\ files' = files \cup ItemOutcome(driver, idx, noResult, ps, rw, wr).write
    /\ inflight' = inflight \ {idx}
    /\ outcome' = [outcome EXCEPT ![idx] = IF noResult THEN "no_result" ELSE "text"]
    /\ rawtext' = [rawtext EXCEPT ![idx] = IF noResult THEN <<>> ELSE ps]
    /\ pc' = AfterItem(driver)
    /\ UNCHANGED <<driver, env, exit, idx, runs, hung, summary>>
    /\ out' = out \o ItemClosing(driver,
                                ItemOutcome(driver, idx, noResult, ps, rw, wr).entry.status)
    /\ UNCHANGED <<xvars, nvars, answers, step>>

\* agent.run() raises
AgentRaises(kind) ==
    /\ driver \in Drivers
    /\ pc = "await"
    /\ ~hung
    /\ results' = Record(driver, results,
                         Entry(SCHOLARSHIPS[idx], "error",
                               RaisedError(driver, kind), NoFile))
    /\ inflight' = inflight \ {idx}
    /\ outcome' = [outcome EXCEPT ![idx] = "raised"]
    /\ pc' = AfterItem(driver)
    /\ UNCHANGED <<driver, env, exit, rawtext, idx, runs, hung, files, summary>>
    /\ UNCHANGED out
    /\ UNCHANGED <<xvars, nvars, answers, step>>

\* the wait_for deadline passes: except asyncio.TimeoutError
AgentTimeout ==
    /\ pc = "await"
    /\ HasTimeout(driver)
    /\ results' = Record(driver, results,
                         Entry(SCHOLARSHIPS[idx], "error", "Timeout", NoFile))
    /\ inflight' = WaitForCancels(inflight, idx)
    /\ outcome' = [outcome EXCEPT ![idx] = "timeout"]
    /\ hung' = FALSE
    /\ pc' = AfterItem(driver)
    /\ UNCHANGED <<driver, env, exit, rawtext, idx, runs, files, summary>>
    /\ UNCHANGED out
    /\ UNCHANGED <<xvars, nvars, answers, step>>

\* await asyncio.sleep(...) between items
Sleep ==
    /\ pc = "sleep"
    /\ pc' = "loop"
    /\ UNCHANGED <<driver, env, exit, rawtext, idx, results, inflight, runs, outcome, hung,
                   files, summary>>
    /\ UNCHANGED out
    /\ UNCHANGED <<xvars, nvars, answers, step>>

\* sum(1 for r in results if r["status"] == st)
CountStatus(res, st) == Cardinality({k \in 1..Len(res) : res[k].status = st})

\* the summary document of scrape_all: total, success, errors, results
SummaryAll(res) ==
    [written |-> TRUE, torn |-> FALSE, total |-> Len(SCHOLARSHIPS),
     success |-> CountStatus(res, "success"),
     errors |-> CountStatus(res, "error"), results |-> res]

\* the summary document of main in scrape-all-scholarships.py: total and
\* the entries (under "scholarships"), no success or error count
SummaryScholarships(res) ==
    [written |-> TRUE, torn |-> FALSE, total |-> Len(SCHOLARSHIPS), results |-> res]

SummaryOf(d, res) ==
    IF d = "scholarships" THEN SummaryScholarships(res) ELSE SummaryAll(res)

\* after the loop: the summary document is built and written, outside
\* any try (wr: how the write ends); then the closing prints
WriteSummary(wr) ==
    /\ pc = "loop"
    /\ idx = NumLabels
    /\ IF wr.how = "ok"
       THEN /\ summary' = SummaryOf(driver, results)
            /\ pc' = "done"
            /\ exit' = Completed
            /\ out' = out \o Closing(driver)
       ELSE /\ summary' = IF wr.how = "torn" THEN TornSummary ELSE NoSummary
            /\ pc' = "aborted"
            /\ exit' = Uncaught
            /\ UNCHANGED out
    /\ UNCHANGED <<driver, env, rawtext, idx, results, inflight, runs, outcome, hung, files>>
    /\ UNCHANGED <<xvars, nvars, answers, step>>

\* main / __main__ of a single-run script: the argument test and the
\* choice of the function to run
SingleArgs ==
    /\ driver \in Singles
    /\ pc = "start"
    /\ pc' = IF Dispatch(driver, env) = "go" THEN "setup" ELSE "exited"
    /\ idx' = IF Dispatch(driver, env) = "go" THEN 1 ELSE idx
    /\ exit' = DispatchExit(driver, Dispatch(driver, env))
    /\ out' = out \o DispatchPrints(driver, Dispatch(driver, env))
    /\ UNCHANGED <<driver, env, rawtext, results, inflight, runs, outcome,
                   hung, files, summary>>
    /\ UNCHANGED <<xvars, nvars, answers, step>>

\* the step the run is about to take
NextOp == Prog(driver, env.mode)[step + 1]

\* the run is inside its try
InTry == step >= Len(SetupOf(driver, env.mode))

\* how a step ends: it does not raise (and the cookies are loaded without
\* a warning), it raises, or it raises a json.JSONDecodeError, which the
\* discover scripts catch in a handler of its own
StepEnds == {"ok", "raises", "raises_decode"}

\* the handler that takes an exception raised inside the try
Handler(how) == IF how = "raises_decode" THEN "raised_decode" ELSE "raised"

\* one step of the run before agent.run().  An exception outside the try
\* leaves the process; inside the try it is caught and reported
SingleStep(how) ==
    /\ driver \in Singles
    /\ pc = "setup"
    /\ step < Len(Prog(driver, env.mode))
    /\ NextOp \notin AnswerOps
    /\ how = "ok" \/ TwoWay(NextOp)
    /\ how = "raises_decode"
           => (InTry /\ driver \in DiscoverScripts /\ NextOp \in Fallible)
    /\ step' = step + 1
    /\ IF OpOutcome(NextOp, how = "ok", env, answers) = "next"
       THEN /\ pc' = IF step + 1 = Len(Prog(driver, env.mode)) THEN "try" ELSE "setup"
            /\ out' = out \o OpPrints(NextOp, how = "ok")
            /\ UNCHANGED <<exit, outcome>>
       ELSE IF OpOutcome(NextOp, how = "ok", env, answers) = "exit"
       THEN /\ pc' = "exited"
            /\ exit' = Exited(SysExit)
            /\ UNCHANGED <<out, outcome>>
       ELSE IF InTry
       THEN /\ pc' = "exited"
            /\ exit' = EndExit(driver, env.mode, Handler(how))
            /\ out' = out \o EndPrints(driver, env.mode, Handler(how))
            /\ outcome' = [outcome EXCEPT ![idx] = "raised"]
       ELSE /\ pc' = "exited"
            /\ exit' = Uncaught
            /\ UNCHANGED <<out, outcome>>
    /\ UNCHANGED <<driver, env, rawtext, idx, results, inflight, runs,
                   hung, files, summary>>
    /\ UNCHANGED <<xvars, nvars, answers>>

\* complete_application_with_session, "Load prepared answers": answers =
\* prepared_answers, and the test "if answers_url and not answers"
LoadAnswers ==
    /\ driver \in Singles
    /\ pc = "setup"
    /\ step < Len(Prog(driver, env.mode))
    /\ NextOp = "answers"
    /\ answers' = [fetched |-> FALSE, loaded |-> FromFile(env.file)]
    /\ step' = IF Fetches(env.url, FromFile(env.file)) THEN step + 1 ELSE step + 3
    /\ UNCHANGED <<driver, env, exit, rawtext, idx, results, inflight, runs, outcome,
                   hung, files, summary, out, pc>>
    /\ UNCHANGED <<xvars, nvars>>

\* the request to the answers URL is made and awaited: it is answered or
\* raises, or the script waits for ever
FetchAnswers ==
    /\ driver \in Singles
    /\ pc = "setup"
    /\ step < Len(Prog(driver, env.mode))
    /\ NextOp = "fetch"
    /\ env.url # "hangs"
    /\ answers' = [answers EXCEPT !.fetched = TRUE]
    /\ step' = step + 1
    /\ UNCHANGED <<driver, env, exit, rawtext, idx, results, inflight, runs, outcome,
                   hung, files, summary, out, pc>>
    /\ UNCHANGED <<xvars, nvars>>

\* the answer of the answers URL: the request raised and the exception
\* leaves the process; or, with status 200, answers = data.get('answers',
\* {}); another status leaves the answers as they were
ReadResponse ==
    /\ driver \in Singles
    /\ pc = "setup"
    /\ step < Len(Prog(driver, env.mode))
    /\ NextOp = "response"
    /\ step' = step + 1
    /\ IF env.url = "raises"
       THEN /\ pc' = "exited"
            /\ exit' = Uncaught
            /\ UNCHANGED answers
       ELSE /\ answers' = [answers EXCEPT !.loaded = FromUrl(env.url, @)]
            /\ UNCHANGED <<pc, exit>>
    /\ UNCHANGED <<driver, env, rawtext, idx, results, inflight, runs, outcome,
                   hung, files, summary, out>>
    /\ UNCHANGED <<xvars, nvars>>

\* if not answers: raise ValueError, outside any try
CheckAnswers ==
    /\ driver \in Singles
    /\ pc = "setup"
    /\ step < Len(Prog(driver, env.mode))
    /\ NextOp = "check"
    /\ step' = step + 1
    /\ IF Truthy(answers.loaded)
       THEN UNCHANGED <<pc, exit>>
       ELSE /\ pc' = "exited"
            /\ exit' = Uncaught
    /\ UNCHANGED <<driver, env, rawtext, idx, results, inflight, runs, outcome,
                   hung, files, summary, out, answers>>
    /\ UNCHANGED <<xvars, nvars>>

\* agent.run() of a single-run script ends and the script runs to its end
\* (without the API key no LLM call succeeds, so the text holds no JSON)
SingleEnds(how) ==
    /\ driver \in Singles
    /\ pc = "await"
    /\ ~hung
    /\ how \in EndingsOf(driver, env.mode)
    /\ how \in ParsedEndings => env.key
    /\ inflight' = inflight \ {idx}
    /\ outcome' = [outcome EXCEPT ![idx] =
                       IF how \in {"raised", "raised_decode"} THEN "raised" ELSE "text"]
    /\ exit' = EndExit(driver, env.mode, how)
    /\ out' = out \o EndPrints(driver, env.mode, how)
    /\ files' = IF WritesFile(driver, env.mode, how) THEN files \cup {OutputFile}
                ELSE files
    /\ pc' = "exited"
    /\ UNCHANGED <<driver, env, rawtext, idx, results, runs, hung, summary>>
    /\ UNCHANGED <<xvars, nvars, answers, step>>

Next ==
    \/ \E mk \in BOOLEAN : Start(mk)
    \/ \E ok \in BOOLEAN : BeginItem(ok)
    \/ \E how \in SessionOutcomes : LoadSession(how)
    \/ \E ok \in BOOLEAN : BuildBrowser(ok)
    \/ \E kind \in RaiseKinds : AgentInitRaises(kind)
    \/ \E h \in BOOLEAN : StartAgent(h)
    \/ \E nr \in BOOLEAN, ps \in BatchTexts, rw \in WriteOutcomes, wr \in WriteOutcomes :
           AgentReturns(nr, ps, rw, wr)
    \/ \E kind \in RaiseKinds : AgentRaises(kind)
    \/ AgentTimeout
    \/ Sleep
    \/ \E wr \in WriteOutcomes : WriteSummary(wr)
    \/ SingleArgs
    \/ \E how \in StepEnds : SingleStep(how)
    \/ LoadAnswers
    \/ FetchAnswers
    \/ ReadResponse
    \/ CheckAnswers
    \/ \E how \in Endings : SingleEnds(how)

Spec == Init /\ [][Next]_vars

\* the event loop resumes the driver whenever one of its steps can be taken
LiveSpec == Spec /\ WF_vars(Next)

---------------------------------------------------------------------------
(* Claims about the batch drivers (checked under Spec and LiveSpec)        *)

\* the run has ended: after the summary, or by an exception that left
\* scrape_all
Ended == pc \in {"done", "aborted"}

\* item i has been processed and its entry appended
Recorded(i) == i <= Len(results)

\* the run was ended by the file system and not by an item: the data
\* directory could not be made, or the summary could not be written
DiskFailed ==
    /\ pc = "aborted"
    /\ (driver = "scholarships" \/ idx = 0 \/ outcome[idx] # "setup_failed")

\* C1: whatever happened to the earlier labels (timeout, agent exception,
\* unparseable output, file-write error, failure while building the LLM or
\* browser of an item), a run that the file system lets finish ends only
\* after every label has been attempted and the summary has been written.
C1_BatchAlwaysCompletes ==
    (Ended /\ ~DiskFailed)
          => /\ idx = NumLabels
             /\ \A i \in 1..NumLabels : outcome[i] # "pending"
             /\ summary.written

\* C2: once the summary is written its result list has one entry per label
\* and the i-th entry carries the i-th label.
C2_OneEntryPerLabelInOrder ==
    summary.written =>
        /\ Len(summary.results) = Len(SCHOLARSHIPS)
        /\ \A i \in 1..Len(SCHOLARSHIPS) :
               summary.results[i].title = SCHOLARSHIPS[i]

\* a finished run whose first item was ended by its timeout and whose
\* second item was saved
C2_Witness ==
    /\ summary.written
    /\ summary.results[1].error = "Timeout"
    /\ summary.results[2].status = "success"

\* C3: a timed-out item is recorded as error with reason Timeout, an item
\* whose agent raised is recorded with another reason, and neither of
\* them, nor a run that ended without a final result, is recorded as the
\* missing-JSON failure of the extraction.
C3_FailureReasonsKept ==
    \A i \in 1..Len(results) :
        /\ outcome[i] = "timeout"
               => results[i].status = "error" /\ results[i].error = "Timeout"
        /\ outcome[i] = "raised"
               => /\ results[i].status = "error"
                  /\ results[i].error \notin {"Timeout", "No valid JSON found"}
        /\ outcome[i] = "no_result"
               => results[i].error # "No valid JSON found"

\* C4: in every driver an agent call that never returns by itself is
\* ended by its timeout, so that the item is eventually recorded as not
\* successful.
C4_HungAgentIsTimedOut ==
    \A i \in 1..NumLabels :
        (driver \in Drivers /\ idx = i /\ pc = "await" /\ hung)
            ~> (Recorded(i) /\ results[i].status # "success")

\* C5: at most one agent call is in flight, it belongs to the item at
\* hand, and none is in flight when the next one is about to start.
C5_OneAgentInFlight ==
    /\ Cardinality(inflight) <= 1
    /\ inflight \subseteq {idx}
    /\ pc # "await" => inflight = {}

\* the second item's agent is running after the first item's call was
\* ended by its timeout
C5_Witness ==
    /\ idx = 2
    /\ pc = "await"
    /\ inflight = {2}
    /\ outcome[1] = "timeout"
    /\ runs[1] = 1

---------------------------------------------------------------------------
(* NameSpec: the names of the record files and raw output files of one run *)
(* of a batch driver, made label after label as the loop does              *)

\* str.lower() over the letters used in the labels
LowerChar(c) == IF c = "A" THEN "a" ELSE IF c = "B" THEN "b" ELSE c
Lower(t) == [k \in 1..Len(t) |-> LowerChar(t[k])]

\* the characters of the class [a-z0-9] used in the labels
AlNum == {"a", "b", "o", "p", "r", "t", "u", "w", "1"}

\* re.sub(r'[^a-z0-9]+', '_', t) from position i on: every maximal run of
\* other characters becomes one underscore
RECURSIVE SubRuns(_, _)
SubRuns(t, i) ==
    IF i > Len(t) THEN <<>>
    ELSE IF t[i] \in AlNum THEN <<t[i]>> \o SubRuns(t, i + 1)
    ELSE <<"_">> \o SubRuns(t, NextIn(t, i, AlNum))

\* str.strip('_')
StripUnderscores(t) ==
    Slice(t, MinOr({k \in 1..Len(t) : t[k] # "_"}, Len(t) + 1),
             MaxOr({k \in 1..Len(t) : t[k] # "_"}, 0))

\* slugify(title) of the scrape_all drivers
Slugify(title) == StripUnderscores(SubRuns(Strip(Lower(title)), 1))

\* the slice [:50] of scrape-all-scholarships.py
SafeTitleLen == 50

\* t[:n]
Truncate(t, n) == Slice(t, 1, IF Len(t) < n THEN Len(t) ELSE n)

\* safe_title = re.sub(r'[^a-z0-9]+', '_', title.lower())[:50]
SafeTitle(title) == Truncate(SubRuns(Lower(title), 1), SafeTitleLen)

\* the normalized label the driver d puts in the name
SlugOf(d, title) == IF d = "scholarships" THEN SafeTitle(title) ELSE Slugify(title)

DecimalDigits == <<"0", "1", "2", "3", "4", "5", "6", "7", "8", "9">>

\* str(n) for n >= 0
RECURSIVE Decimal(_)
Decimal(n) ==
    IF n < 10 THEN <<DecimalDigits[n + 1]>>
    ELSE Decimal(n \div 10) \o <<DecimalDigits[(n % 10) + 1]>>

\* the format {n:02d}
Pad2(n) == IF n < 10 THEN <<"0">> \o Decimal(n) ELSE Decimal(n)

ScholarshipPrefix == <<"s", "c", "h", "o", "l", "a", "r", "s", "h", "i", "p", "_">>
AisesCobellPrefix == <<"a", "i", "s", "e", "s", "_", "c", "o", "b", "e", "l", "l", "_">>
JsonSuffix == <<".", "j", "s", "o", "n">>
RawSuffix == <<"_", "r", "a", "w", "_", "o", "u", "t", "p", "u", "t", ".", "t", "x", "t">>

NamePrefix(d) == IF d = "aises_cobell" THEN AisesCobellPrefix ELSE ScholarshipPrefix

\* the name without the position of the item
RecordNameNoPosition(d, i, title) ==
    NamePrefix(d) \o SlugOf(d, title) \o JsonSuffix

\* f"scholarship_{index+1:02d}_{slugify(title)}.json" and its variants; i is
\* the 1-based position of the label
RecordName(d, i, title) ==
    NamePrefix(d) \o Pad2(i) \o <<"_">> \o SlugOf(d, title) \o JsonSuffix

\* f"scholarship_{index+1:02d}_raw_output.txt", written by
\* scrape-all-smarterselect.py only (<<>>: no raw output file)
RawName(d, i) ==
    IF d = "smarterselect" THEN ScholarshipPrefix \o Pad2(i) \o RawSuffix
    ELSE <<>>

\* fifty times the letter a
LongStem == [k \in 1..SafeTitleLen |-> "a"]

\* the labels the naming is checked on: "A b", "a-b" and " a  B_" (one
\* slug), "raw output", and two labels that differ after their 50th
\* character only
NameLabels == {
    <<"A", " ", "b">>,
    <<"a", "-", "b">>,
    <<" ", "a", " ", " ", "B", "_">>,
    <<"r", "a", "w", " ", "o", "u", "t", "p", "u", "t">>,
    LongStem \o <<"a">>,
    LongStem \o <<"b">>
}

NameInit ==
    /\ parts = <<>>
    /\ script = "none"
    /\ xres = NoXRes
    /\ report = NoReport
    /\ labels \in [1..NumLabels -> NameLabels]
    /\ named = <<>>
    /\ driver \in Drivers
    /\ env = [key |-> TRUE, arg |-> "ok", mode |-> "run", file |-> "none", url |-> "none"]
    /\ exit = Running
    /\ out = <<>>
    /\ answers = NoAnswers
    /\ step = 0
    /\ pc = "naming"
    /\ idx = 0
    /\ results = <<>>
    /\ inflight = {}
    /\ runs = <<>>
    /\ outcome = <<>>
    /\ rawtext = <<>>
    /\ hung = FALSE
    /\ files = {}
    /\ summary = NoSummary

\* the names made in the iteration for the next label
NameItem ==
    /\ pc = "naming"
    /\ Len(named) < Len(labels)
    /\ named' = Append(named,
                       [record |-> RecordName(driver, Len(named) + 1,
                                              labels[Len(named) + 1]),
                        raw |-> RawName(driver, Len(named) + 1)])
    /\ UNCHANGED <<xvars, bvars, labels>>

NameNext == NameItem

NameSpec == NameInit /\ [][NameNext]_vars

---------------------------------------------------------------------------
(* Claims about the extraction (checked under ExtractSpec)                 *)

Kind(k) == Catalog[parts[k]].kind
Chars(k) == Catalog[parts[k]].chars
Body(k) == Catalog[parts[k]].body

\* one of the two brace-matching routines was applied
Ran == script \in {"all", "one"}

\* part k is a fenced block whose trimmed content json.loads accepts
FenceParses(k) == Kind(k) = "fence" /\ JsonParses(Strip(Body(k)))

FirstParsingFence ==
    CHOOSE k \in 1..Len(parts) :
        FenceParses(k) /\ \A m \in 1..(k - 1) : ~FenceParses(m)

\* C6: when the text holds a fenced block (with or without the json tag)
\* whose trimmed content parses, the extraction succeeds with the value of
\* the first such block in text order, whatever pieces (prose, bare
\* objects, fenced blocks that do not parse) come before or after it.
C6_FirstParsingFenceWins ==
    (Ran /\ \E k \in 1..Len(parts) : FenceParses(k))
        => /\ xres.status = "parsed"
           /\ xres.value = JsonLoads(Strip(Body(FirstParsingFence))).out

\* C7: for a text of two top-level JSON objects separated by prose (no
\* fenced block), the result is the first object alone.
C7_FirstOfTwoObjects ==
    (/\ Ran
     /\ Len(parts) = 3
     /\ Kind(1) = "object" /\ Kind(2) = "prose" /\ Kind(3) = "object")
        => /\ xres.status = "parsed"
           /\ xres.candidate = Chars(1)
           /\ xres.value = JsonLoads(Chars(1)).out

\* C8: for a text of prose around one JSON object, braces inside the
\* object's string values do not move the end of the candidate: the
\* candidate is the object and it is extracted with its value intact.
C8_BracesInStringsIgnored ==
    (/\ Ran
     /\ \E k \in 1..Len(parts) :
            /\ Kind(k) = "object"
            /\ \A m \in 1..Len(parts) : m # k => Kind(m) = "prose")
        => LET k == CHOOSE k \in 1..Len(parts) : Kind(k) = "object" IN
           /\ xres.status = "parsed"
           /\ xres.candidate = Chars(k)
           /\ xres.value = JsonLoads(Chars(k)).out

\* C9: when the brace-scan candidate does not parse, the commas before a
\* closing brace or bracket are removed and the parse retried once; a
\* candidate whose only defect is one trailing comma then succeeds with the
\* value of the text without that comma, and a candidate that still does
\* not parse is a failure.
C9_TrailingCommaRepair ==
    (Ran /\ xres.via = "brace" /\ ~JsonParses(xres.candidate))
        => /\ xres.repaired
           /\ \A c \in Pieces :
                 (Catalog[c].kind = "trailing" /\ xres.candidate = Catalog[c].chars)
                     => /\ xres.status = "parsed"
                        /\ xres.value = JsonLoads(Catalog[c].body).out
           /\ ~JsonParses(RepairCommas(xres.candidate))
                 => xres.status = "decode_error"

\* C10: a text that is exactly one valid JSON object is extracted with the
\* value json.loads gives for the whole text, and more generally a text
\* whose trimmed whole parses never ends without a parsed value.
C10_WholeTextObject ==
    /\ (Ran /\ Len(parts) = 1 /\ Kind(1) = "object")
           => /\ xres.status = "parsed"
              /\ xres.value = JsonLoads(Text(parts)).out
    /\ (Ran /\ JsonParses(Strip(Text(parts))))
           => xres.status = "parsed"

---------------------------------------------------------------------------
(* Claims about failures and what is reported (ExtractSpec, Spec)          *)

\* the text is empty or made of whitespace only
BlankText == \A k \in 1..Len(parts) : Kind(k) = "blank"

\* C11: for an empty or whitespace-only agent text the script reports a
\* failure with its no-valid-JSON reason ("No valid JSON found" in the
\* batch script; the single-item script's one failure message, reached
\* through the whole-text parse), never a success and never a saved record.
C11_BlankTextIsNoValidJson ==
    (Ran /\ BlankText) =>
        /\ ~report.success
        /\ ~report.saved
        /\ script = "all" => /\ xres.status = "no_json"
                             /\ report.error = "No valid JSON found"
        /\ script = "one" => /\ xres.via = "whole"
                             /\ report.error = "Failed to parse scholarship data"
                             /\ report.exceptionType = "JSONDecodeError"

\* a whitespace-only text of two pieces reported as "No valid JSON found"
C11_Witness ==
    /\ Ran
    /\ script = "all"
    /\ Len(parts) = 2
    /\ BlankText
    /\ report.error = "No valid JSON found"

\* C12: whenever the batch script's extraction ends without a parsed value
\* (no candidate, or a candidate that does not parse even after the
\* repair) the failure it returns carries the reason "No valid JSON found".
C12_SingleFailureReason ==
    (Ran /\ script = "all" /\ xres.status # "parsed")
        => report.error = "No valid JSON found"

\* the raw text the agent returned for item i is on disk (no driver puts
\* the text itself into the entry)
RawTextKept(i) ==
    \E f \in files : f.file = RawFileOf(i) /\ f.data = Text(rawtext[i])

\* C13: every item recorded as error keeps its diagnostic: the entry
\* states the reason, and when the agent returned a text (no candidate,
\* unparseable candidate) that raw text is persisted with it.
C13_FailedItemKeepsDiagnostic ==
    \A i \in 1..Len(results) :
        results[i].status = "error"
            => /\ results[i].error # ""
               /\ outcome[i] = "text" => RawTextKept(i)

\* the parse the driver at hand makes of the text s
ExtractBy(d, s) ==
    IF d = "smarterselect" THEN ExtractAll(s)
    ELSE IF d \in {"modular", "aises_cobell"} THEN ExtractFirstLast(s)
    ELSE ExtractStripped(s)

\* the record file named by entry i exists and holds data
Saved(i, data) ==
    \E f \in files : f.file = results[i].file /\ f.data = data

\* C14: an entry has status success only if the agent returned a text, the
\* driver's extraction of that text ended in an accepted parse, and the
\* record persisted for the item is what the driver made of that parsed
\* value, which the parser accepts again unchanged.
C14_SuccessImpliesParsed ==
    \A i \in 1..Len(results) :
        results[i].status = "success"
            => /\ outcome[i] = "text"
               /\ ExtractBy(driver, Text(rawtext[i])).status = "parsed"
               /\ Saved(i, Annotated(driver, i,
                                     ExtractBy(driver, Text(rawtext[i]))).value)
               /\ \A f \in files :
                      f.file = results[i].file
                          => JsonLoads(f.data).ok /\ JsonLoads(f.data).out = f.data

\* a success entry whose record came from a candidate that parsed only
\* after the comma repair
C14_Witness ==
    /\ driver = "smarterselect"
    /\ Len(results) >= 1
    /\ results[1].status = "success"
    /\ rawtext[1] = <<6>>
    /\ Saved(1, JsonLoads(Catalog[6].body).out)

\* C15: a text whose extracted JSON value is not an object (an array at
\* the root, for instance) is reported as a failure: no success and no
\* record saved.
C15_NonObjectIsFailure ==
    (Ran /\ xres.status = "parsed" /\ xres.kind # "obj")
        => ~report.success /\ ~report.saved

\* C16: in a written summary every entry has status success or error, the
\* document carries both counts, and success + errors = total = number of
\* labels = number of entries.
C16_SummaryCounts ==
    summary.written =>
        /\ \A k \in 1..Len(summary.results) :
               summary.results[k].status \in {"success", "error"}
        /\ {"total", "success", "errors"} \subseteq DOMAIN summary
        /\ summary.success + summary.errors = summary.total
        /\ summary.total = Len(SCHOLARSHIPS)
        /\ summary.total = Len(summary.results)

\* the record file of item i exists
RecordWritten(i) == \E f \in files : f.file = FileOf(i)

\* C17: a record file exists for an item exactly when its entry has status
\* success, and the success entry names that file.
C17_RecordFileIffSuccess ==
    \A i \in 1..Len(results) :
        /\ results[i].status = "success"
               => results[i].file = FileOf(i) /\ RecordWritten(i)
        /\ results[i].status # "success" => ~RecordWritten(i)

\* C18: no label has its agent started more than once, however the first
\* invocation ended; a label whose invocation ended was started exactly
\* once and a label not yet reached was never started.
C18_NoRetry ==
    \A i \in 1..NumLabels :
        /\ runs[i] <= 1
        /\ outcome[i] \in {"timeout", "text", "no_result"} => runs[i] = 1
        /\ i > idx => runs[i] = 0

\* the second label's unparseable text has been recorded after a timeout
\* on the first, each started once
C18_Witness ==
    /\ idx = 2
    /\ outcome[1] = "timeout"
    /\ outcome[2] = "text" /\ results[2].status = "error"
    /\ runs[1] = 1 /\ runs[2] = 1


\* some agent has been launched in this run
AgentLaunched == \E i \in 1..NumLabels : runs[i] > 0

\* C19: when OPENAI_API_KEY is missing the run aborts before the agent is
\* invoked for any item: no agent run is started and no per-item outcome is
\* recorded.
C19_MissingKeyAbortsBeforeItems ==
    ~env.key => (~AgentLaunched /\ results = <<>>)

\* C20: a process that has ended after launching an agent has exit code 0
\* whatever the outcomes; a non-zero exit code is only seen when no agent
\* was ever launched.
C20_ExitCodeZeroAfterSetup ==
    (exit.done /\ AgentLaunched) => exit.code = 0


(***************************************************************************)
(* Claims about pacing, the line protocol and what is persisted            *)
(***************************************************************************)

\* the step ends the processing of an item of a batch driver: the agent was
\* being built or awaited and the loop goes on
ItemEnds ==
    /\ driver \in Drivers
    /\ pc \in {"try", "await"}
    /\ pc' \notin {"try", "await"}

\* C21: in every batch driver the step that ends an item's processing leads
\* to the fixed delay, so that no agent is started for the next label before
\* the delay has been taken.
C21_DelayBetweenItems == [][ItemEnds => pc' = "sleep"]_vars


\* positions of the RESULT lines printed so far
ResultLines == {k \in 1..Len(out) : out[k].kind = "RESULT"}

\* C22: a script that reports through RESULT lines has, when its process has
\* ended, printed exactly one RESULT line, and that line is the last of the
\* lines printed (no PROGRESS or STATUS line after it), on every path.
C22_ExactlyOneResultLine ==
    (driver \in ResultScripts /\ exit.done) =>
        (Cardinality(ResultLines) = 1 /\ Len(out) \in ResultLines)

\* C23: the payload of every RESULT line printed is a JSON document (the
\* output of json.dumps), never the raw value the agent returned.
C23_ResultPayloadIsJson ==
    \A k \in ResultLines : out[k].payload = "json"


\* C24: the single-item script checks syntax only: whenever its extraction
\* yields a JSON object the run is reported as a success, whichever keys
\* the object has (an object without a "title" key included).
C24_AnyObjectIsSuccess ==
    (Ran /\ script = "one" /\ xres.status = "parsed" /\ xres.kind = "obj")
        => report.success


\* C25: the record persisted for a successful item is the extracted JSON
\* value unchanged: the record file holds exactly the value the driver's
\* extraction gave for the agent text, no key added, overwritten or removed.
C25_RecordIsExtractedValue ==
    \A i \in 1..Len(results) :
        results[i].status = "success"
            => Saved(i, ExtractBy(driver, Text(rawtext[i])).value)


\* the process runs complete_application_with_session (--scholarship)
Completing == driver = "complete_application" /\ env.mode = "scholarship"

\* complete_application_with_session is in its try or awaits the agent
InAgentPart ==
    /\ Completing
    /\ (pc = "setup" /\ InTry) \/ pc \in {"try", "await"}

\* C26: complete_application_with_session reaches the creation of the
\* Browser and the Agent, and so launches the agent, only with a non-empty
\* set of prepared answers; the answers of the answers file are the ones
\* used whenever it holds some, the answers URL is fetched only when it was
\* given and the file gave none, answers come from the URL only on a 200
\* response, and with nothing loaded the process has ended without an agent.
C26_AgentNeedsAnswers ==
    /\ (InAgentPart \/ (Completing /\ AgentLaunched))
           => (Truthy(answers.loaded) /\ ~NoLen(env, answers))
    /\ (InAgentPart /\ env.file = "some") => answers.loaded = "file"
    /\ answers.fetched => (env.file \notin {"some", "scalar"} /\ env.url # "none")
    /\ answers.loaded = "url" => env.url \in {"ok_some", "ok_scalar"}
    /\ (Completing /\ ~Truthy(answers.loaded)) => ~AgentLaunched

\* the agent was launched with answers fetched from the URL after an
\* answers file that held none
C26_Witness ==
    /\ Completing
    /\ env.file = "empty"
    /\ answers = [fetched |-> TRUE, loaded |-> "url"]
    /\ runs[1] = 1


\* the text is one valid object followed by prose holding a '}' or by a
\* second top-level object
ObjectThenBrace ==
    /\ Len(parts) >= 2
    /\ Kind(1) = "object"
    /\ \A k \in 2..Len(parts) : Kind(k) \in {"prose", "junk", "object", "blank"}
    /\ \E k \in 2..Len(parts) : Kind(k) \in {"junk", "object"}

\* C27: in the scripts that cut the candidate from the first '{' to the last
\* '}', a text made of one valid object followed by prose that holds a '}',
\* or by a second object, still gives a success carrying the first object.
C27_FirstLastKeepsFirstObject ==
    (script = "firstlast" /\ ObjectThenBrace)
        => /\ xres.status = "parsed"
           /\ xres.value = JsonLoads(Body(1)).out
           /\ report.success


\* C28: the trailing-comma repair changes only structural commas: whenever
\* a candidate parses only after the repair, the value obtained is the one
\* of the candidate without its trailing comma, every string value kept
\* character for character (the catalogue gives that intended text as the
\* body of each such candidate).
C28_RepairKeepsStrings ==
    (Ran /\ xres.repaired /\ xres.status = "parsed")
        => \E c \in Pieces :
               /\ Catalog[c].kind = "trailing"
               /\ xres.candidate = Catalog[c].chars
               /\ xres.value = JsonLoads(Catalog[c].body).out


\* C29: within one run no two labels get the same record file name, nor the
\* same raw output file name, and no record name is a raw output name: the
\* position in the name keeps the names apart even when two labels
\* normalize or truncate to the same slug.
C29_DistinctFileNames ==
    \A j, k \in 1..Len(named) :
        /\ j # k => named[j].record # named[k].record
        /\ (j # k /\ named[j].raw # <<>>) => named[j].raw # named[k].raw
        /\ named[j].record # named[k].raw

\* two different labels of the run were cut to the same 50 characters and
\* both have been given their names
C29_Witness ==
    /\ driver = "scholarships"
    /\ Len(named) >= 2
    /\ labels[1] # labels[2]
    /\ Len(labels[1]) > SafeTitleLen
    /\ SlugOf(driver, labels[1]) = SlugOf(driver, labels[2])


IsProgress(l) == l.kind = "PROGRESS"

\* the PROGRESS lines printed so far, in order
ProgressLines == SelectSeq(out, IsProgress)

\* the 'current' value the k-th PROGRESS line of a run has to carry:
\* 0, then 1..N in label order, then N again
ProgressAt(k) == IF k = NumLabels + 2 THEN NumLabels ELSE k - 1

\* C30: in a batch driver that prints PROGRESS markers the 'current' values
\* printed are 0, then 1..N in label order, then N once more; that closing
\* N/N is printed only after the summary was written and is followed by the
\* run's single RESULT line, the last line; and a run that has ended (the
\* file system letting it finish) has printed all of them.
C30_ProgressSequence ==
    Prints(driver) =>
        /\ Len(ProgressLines) <= NumLabels + 2
        /\ \A k \in 1..Len(ProgressLines) : ProgressLines[k].cur = ProgressAt(k)
        /\ Len(ProgressLines) = NumLabels + 2
               => /\ summary.written
                  /\ ResultLines = {Len(out)}
                  /\ out[Len(out) - 1] = Progress(NumLabels)
        /\ Len(ProgressLines) < NumLabels + 2 => ResultLines = {}
        /\ (exit.done /\ ~DiskFailed) => Len(ProgressLines) = NumLabels + 2

=============================================================================
